---- MODULE Spec2Model ----
(***************************************************************************)
(* Verification model of skyrim-alchemy-rs: load-order aware form-id       *)
(* globalization, load-order compaction, GameData construction /           *)
(* validation / purge, and the potion combination filters.                 *)
(*                                                                         *)
(* Plugin names are modelled as sequences of ASCII byte values so that the *)
(* case-insensitive comparison, the ".esl" suffix test and the "cc" prefix *)
(* test are computed the way the code computes them.                       *)
(***************************************************************************)
EXTENDS Integers, Sequences, FiniteSets, TLC

VARIABLES
    load_order,     \* LoadOrder { masters, light_masters }
    pc,             \* position of the running operation
    plugin_name,    \* parse_plugin: name of the plugin being parsed
    masters,        \* parse_plugin: MAST entries of the plugin header
    parsed,         \* parse_plugin: records whose globalization returned Ok
    errors,         \* parse_plugin: records whose globalization returned Err
    last,           \* the last call made (inputs, pre-state and result)
    ingredients,    \* GameData.ingredients  (GlobalFormId -> Ingredient)
    magic_effects,  \* GameData.magic_effects (GlobalFormId -> MagicEffect)
    combo,          \* PotionsList: the combination under consideration
    potions,        \* PotionsList: potions_2 and potions_3
    cache,          \* SharedEffectsCache: OrderedPair -> bool
    snapshot,       \* the serialized GameData, when one was written
    effect          \* a PotionEffect with its OnceCells

vars == <<load_order, pc, plugin_name, masters, parsed, errors, last,
          ingredients, magic_effects, combo, potions, cache, snapshot, effect>>

----------------------------------------------------------------------------
(* Option / Result values *)

None == [some |-> FALSE]

Some(v) == [some |-> TRUE, val |-> v]

Ok(v) == [ok |-> TRUE, val |-> v]

Err(e) == [ok |-> FALSE, err |-> e]

Min(S) == CHOOSE x \in S : \A y \in S : x <= y

Max(S) == CHOOSE x \in S : \A y \in S : x >= y

Range(s) == {s[i] : i \in 1..Len(s)}

----------------------------------------------------------------------------
(* Plugin names, as ASCII bytes *)

\* "A.esm"
NameA == <<65, 46, 101, 115, 109>>

\* "a.esm" (same plugin as NameA, other casing)
NameALower == <<97, 46, 101, 115, 109>>

\* "B.esp"
NameB == <<66, 46, 101, 115, 112>>

\* "b.ESP" (same plugin as NameB, other casing)
NameBOther == <<98, 46, 69, 83, 80>>

\* "ccC.esl" (a Creation Club light master)
NameCC == <<99, 99, 67, 46, 101, 115, 108>>

\* "D.esl" (a light master that is not Creation Club content)
NameD == <<68, 46, 101, 115, 108>>

\* "E.esp" (a plugin that is never part of the load order)
NameE == <<69, 46, 101, 115, 112>>

\* the names a load order is built from (pairwise distinct under ASCII
\* case folding: the load order lists the files of one plugin directory)
OrderNames == {NameA, NameB, NameCC, NameD}

\* the names a plugin header may list as a master
MasterNames == {NameALower, NameE}

to_ascii_lowercase(b) == IF b >= 65 /\ b <= 90 THEN b + 32 ELSE b

starts_with(s, prefix) ==
    /\ Len(s) >= Len(prefix)
    /\ SubSeq(s, 1, Len(prefix)) = prefix

ends_with(s, suffix) ==
    /\ Len(s) >= Len(suffix)
    /\ SubSeq(s, Len(s) - Len(suffix) + 1, Len(s)) = suffix

\* "cc"
StrCC == <<99, 99>>

\* ".esl"
StrDotEsl == <<46, 101, 115, 108>>

is_creation_club_light_master(mod_name) ==
    starts_with(mod_name, StrCC) /\ ends_with(mod_name, StrDotEsl)

is_esl(mod_name) == ends_with(mod_name, StrDotEsl)

\* the Ordering of position i of the zip_longest of a and b
cmp_byte_at(a, b, i) ==
    IF i > Len(b) THEN "Greater"
    ELSE IF i > Len(a) THEN "Less"
    ELSE IF to_ascii_lowercase(a[i]) < to_ascii_lowercase(b[i]) THEN "Less"
    ELSE IF to_ascii_lowercase(a[i]) > to_ascii_lowercase(b[i]) THEN "Greater"
    ELSE "Equal"

cmp_ignore_case_ascii(a, b) ==
    LET n == IF Len(a) >= Len(b) THEN Len(a) ELSE Len(b)
        diff == {i \in 1..n : cmp_byte_at(a, b, i) # "Equal"}
    IN  IF diff = {} THEN "Equal" ELSE cmp_byte_at(a, b, Min(diff))

\* byte-wise (case sensitive) ordering of String, used by Vec<String>::sort
str_less(a, b) ==
    LET n == IF Len(a) <= Len(b) THEN Len(a) ELSE Len(b)
        diff == {i \in 1..n : a[i] # b[i]}
    IN  IF diff = {} THEN Len(a) < Len(b)
        ELSE a[Min(diff)] < b[Min(diff)]

RECURSIVE sort_strings(_)
sort_strings(s) ==
    IF Len(s) <= 1 THEN s
    ELSE LET least == CHOOSE i \in 1..Len(s) :
                         \A j \in 1..Len(s) : ~str_less(s[j], s[i])
         IN  <<s[least]>> \o
             sort_strings(SubSeq(s, 1, least - 1) \o SubSeq(s, least + 1, Len(s)))

----------------------------------------------------------------------------
(* LoadOrder *)

LoadOrder_new(order) ==
    [ masters       |-> SelectSeq(order, LAMBDA e : ~is_creation_club_light_master(e)),
      light_masters |-> sort_strings(
                            SelectSeq(order, LAMBDA e : is_creation_club_light_master(e))) ]

\* 0-based index of the first entry equal to mod_name ignoring ASCII case
find_masters_index(lo, mod_name) ==
    LET hits == {i \in 1..Len(lo.masters) :
                    cmp_ignore_case_ascii(lo.masters[i], mod_name) = "Equal"}
    IN  IF hits = {} THEN None ELSE Some(Min(hits) - 1)

get_form_id_prefix(lo, mod_name) ==
    LET hits == {i \in 1..Len(lo.masters) :
                    cmp_ignore_case_ascii(lo.masters[i], mod_name) = "Equal"}
    IN  IF hits = {} THEN None ELSE Some(Min(hits) - 1)

get(lo, index) ==
    IF index + 1 \in 1..Len(lo.masters) THEN Some(lo.masters[index + 1]) ELSE None

\* returns the Result and the LoadOrder after the call
plugin_is_esl_flagged(lo, mod_name) ==
    IF is_esl(mod_name) THEN [res |-> Ok("unit"), lo |-> lo]
    ELSE LET index == find_masters_index(lo, mod_name)
         IN  IF ~index.some
             THEN [res |-> Err("not found in masters"), lo |-> lo]
             ELSE [res |-> Ok("unit"),
                   lo  |-> [ masters |->
                               SubSeq(lo.masters, 1, index.val) \o
                               SubSeq(lo.masters, index.val + 2, Len(lo.masters)),
                             light_masters |->
                               Append(lo.light_masters, lo.masters[index.val + 1]) ]]

----------------------------------------------------------------------------
(* Form ids *)

\* 2^24: the record id is the low 24 bits, the master slot the top byte
TwoPow24 == 16777216

\* x & 0x00FFFFFF on u32
and_00FFFFFF(x) == x % TwoPow24

\* x & 0xFF000000 on u32
and_FF000000(x) == (x \div TwoPow24) * TwoPow24

\* GlobalFormId built from one packed u32: the load order index is the top
\* byte, the record id the low 24 bits
GlobalFormId_new(form_id) ==
    [ load_order_index |-> form_id \div TwoPow24,
      id               |-> and_00FFFFFF(form_id) ]

\* split_form_id(id, get_master): the name get_master resolves, with the
\* low 24 bits of the id
split_form_id(id, master) ==
    IF ~master.some
    THEN Err("record has invalid master reference in form ID")
    ELSE Ok(<<master.val, and_00FFFFFF(id)>>)

\* globalize_form_id with a lookup that falls back to index 0 when the owner
\* is not in the LoadOrder
globalize_form_id_defaulted(form_id, name, mast, lo) ==
    LET mod_id      == form_id \div TwoPow24
        num_masters == Len(mast)
        mod_name    == IF mod_id = num_masters THEN Ok(name)
                       ELSE IF mod_id < num_masters THEN Ok(mast[mod_id + 1])
                       ELSE Err("record has invalid master reference in form ID")
    IN  IF ~mod_name.ok THEN mod_name
        ELSE LET record_id == and_00FFFFFF(form_id)
                 prefix    == get_form_id_prefix(lo, mod_name.val)
                 index     == IF prefix.some THEN prefix.val ELSE 0
             IN  Ok(GlobalFormId_new(and_FF000000(index) + record_id))

\* the closure globalize_form_id of parse_plugin, over the plugin's name,
\* its MAST list and the LoadOrder
globalize_form_id(form_id, name, mast, lo) ==
    LET mod_id      == form_id \div TwoPow24
        num_masters == Len(mast)
        mod_name    == IF mod_id = num_masters THEN Ok(name)
                       ELSE IF mod_id < num_masters THEN Ok(mast[mod_id + 1])
                       ELSE Err("record has invalid master reference in form ID")
    IN  IF ~mod_name.ok THEN mod_name
        ELSE LET record_id == and_00FFFFFF(form_id)
                 prefix    == get_form_id_prefix(lo, mod_name.val)
             IN  IF ~prefix.some THEN Err("plugin not found in load order")
                 ELSE Ok(GlobalFormId_new(and_FF000000(prefix.val) + record_id))

----------------------------------------------------------------------------
(* Bounds of the parse model *)

\* longest load order
MaxPlugins == 2

\* longest MAST list of a plugin header
MaxMasters == 2

\* records globalized in one run
MaxRecords == 1

\* master slots (top byte) of a raw form id: below, at and above the number
\* of masters of any header
MaxSlot == MaxMasters + 1

InjectiveSeqs(S, n) ==
    {s \in UNION {[1..k -> S] : k \in 1..n} :
        \A i, j \in 1..Len(s) : i # j => s[i] # s[j]}

LoadOrderLists == InjectiveSeqs(OrderNames, MaxPlugins)

MasterLists == UNION {[1..k -> MasterNames] : k \in 0..MaxMasters}

\* record ids (low 24 bits): the smallest and the largest
RecordIds == {1, TwoPow24 - 1}

RawFormIds == {slot * TwoPow24 + rec : slot \in 0..MaxSlot, rec \in RecordIds}

NoCall == [op |-> "none"]

\* the name the master slot of a raw form id designates in a plugin: the
\* plugin itself (slot = number of masters) or one of its masters
owner_of(raw, name, mast) ==
    IF raw \div TwoPow24 = Len(mast) THEN name ELSE mast[(raw \div TwoPow24) + 1]

----------------------------------------------------------------------------
(* parse_plugin over a load order *)

InitParse ==
    /\ \E order \in LoadOrderLists :
          /\ load_order = LoadOrder_new(order)
          /\ last = [op |-> "new", order |-> order]
    /\ cache = <<>>
    /\ pc = "idle"
    /\ plugin_name = <<>>
    /\ masters = <<>>
    /\ parsed = {}
    /\ errors = 0
    /\ ingredients = <<>>
    /\ magic_effects = <<>>
    /\ combo = <<>>
    /\ potions = <<>>
    /\ snapshot = None
    /\ effect = None

\* parse_plugin up to the point where records are read: the header gives the
\* MAST list and the light-master flag, which marks the plugin in the
\* LoadOrder (the Result of that call is dropped)
ParseHeader ==
    /\ pc = "idle"
    /\ \E name \in Range(load_order.masters) \cup Range(load_order.light_masters),
          mast \in MasterLists, is_light_master \in BOOLEAN :
          /\ plugin_name' = name
          /\ masters' = mast
          /\ load_order' = IF is_light_master
                           THEN plugin_is_esl_flagged(load_order, name).lo
                           ELSE load_order
          /\ last' = [op |-> "header", flagged |-> is_light_master]
    /\ pc' = "records"
    /\ UNCHANGED <<effect, snapshot, cache, parsed, errors, ingredients, magic_effects, combo, potions>>

\* one record of the plugin: its form id is globalized, and the record goes
\* to the parsed records or to the errors (partition_map)
ParseRecord ==
    /\ pc = "records"
    /\ Cardinality(parsed) + errors < MaxRecords
    /\ \E raw \in RawFormIds :
          LET r == globalize_form_id(raw, plugin_name, masters, load_order)
          IN  /\ parsed' = IF r.ok
                           THEN parsed \cup {[owner |-> owner_of(raw, plugin_name, masters),
                                              id |-> r.val]}
                           ELSE parsed
              /\ errors' = IF r.ok THEN errors ELSE errors + 1
              /\ last' = [op |-> "globalize", raw |-> raw, result |-> r,
                          parsed_before |-> parsed, errors_before |-> errors]
    /\ UNCHANGED <<effect, snapshot, cache, load_order, pc, plugin_name, masters, ingredients,
                   magic_effects, combo, potions>>

\* parse_plugin returns
ParseDone ==
    /\ pc = "records"
    /\ pc' = "idle"
    /\ last' = NoCall
    /\ UNCHANGED <<effect, snapshot, cache, load_order, plugin_name, masters, parsed, errors,
                   ingredients, magic_effects, combo, potions>>

NextParse == ParseHeader \/ ParseRecord \/ ParseDone

SpecParse == InitParse /\ [][NextParse]_vars

----------------------------------------------------------------------------
(* Claims about globalization (SpecParse) *)

Lower(name) == [i \in 1..Len(name) |-> to_ascii_lowercase(name[i])]

\* 0-based positions of the load order entries that name the same plugin
PositionsOf(name) ==
    {i - 1 : i \in {j \in 1..Len(load_order.masters) :
                        Lower(load_order.masters[j]) = Lower(name)}}

LastSlot == last.raw \div TwoPow24

\* C1: a raw form id whose slot designates the plugin itself (slot = number
\* of masters) or one of its masters (slot < number of masters) globalizes
\* to the GlobalFormId whose load_order_index is the owner's index in the
\* LoadOrder and whose id is the low 24 bits of the raw id.
C1_GlobalizeOwnerIndex ==
    (last.op = "globalize" /\ last.result.ok) =>
        /\ LastSlot <= Len(masters)
        /\ last.result.val.id = last.raw % TwoPow24
        /\ last.result.val.load_order_index
               \in PositionsOf(owner_of(last.raw, plugin_name, masters))

\* what the code does establish: the owner is resolved and present in the
\* LoadOrder, and the record id is the low 24 bits
C1_GlobalizeRecordId ==
    (last.op = "globalize" /\ last.result.ok) =>
        /\ LastSlot <= Len(masters)
        /\ last.result.val.id = last.raw % TwoPow24
        /\ PositionsOf(owner_of(last.raw, plugin_name, masters)) # {}

LastUnresolved == LastSlot > Len(masters)

LastMissing ==
    /\ LastSlot <= Len(masters)
    /\ PositionsOf(owner_of(last.raw, plugin_name, masters)) = {}

\* C2: globalization returns an error, and the record is not added to the
\* parsed records, when the slot exceeds the number of masters
\* (UnresolvedMasterReference) and when the owner is not in the LoadOrder
\* (SourceNotInLoadOrder).
C2_GlobalizeFails ==
    last.op = "globalize" =>
        /\ LastUnresolved =>
              /\ last.result = Err("record has invalid master reference in form ID")
              /\ parsed = last.parsed_before
              /\ errors = last.errors_before + 1
        /\ LastMissing =>
              /\ last.result = Err("plugin not found in load order")
              /\ parsed = last.parsed_before
              /\ errors = last.errors_before + 1

\* a record whose owner is a master that the LoadOrder does not hold
C2_Witness ==
    /\ last.op = "globalize"
    /\ LastMissing
    /\ LastSlot < Len(masters)
    /\ ~last.result.ok
    /\ errors = 1

----------------------------------------------------------------------------
(* Loading: parse_plugin called for the sources of a load order (SpecLoad) *)

\* most ids minted during one loading
MaxMinted == 2

\* longest MAST list of a source
MaxLoadMasters == 1

\* load orders of the sources "A.esm", "B.esp" and "E.esp"
LoadOrders == {<<NameA, NameB>>, <<NameA, NameB, NameE>>, <<NameB, NameA, NameE>>}

\* the MAST lists of a source: other sources of the load order
LoadMasterLists(order, name) ==
    {m \in UNION {[1..k -> Range(order) \ {name}] : k \in 0..MaxLoadMasters} :
        \A i, j \in 1..Len(m) : i # j => m[i] # m[j]}

\* raw form ids of record 1 with the master slots a source can use
LoadRawFormIds == {slot * TwoPow24 + 1 : slot \in 0..MaxLoadMasters}

InitLoad ==
    /\ \E order \in LoadOrders :
          /\ load_order = LoadOrder_new(order)
          /\ last = [op |-> "new", order |-> order, done |-> <<>>]
    /\ cache = <<>>
    /\ pc = "idle"
    /\ plugin_name = <<>>
    /\ masters = <<>>
    /\ parsed = {}
    /\ errors = 0
    /\ ingredients = <<>>
    /\ magic_effects = <<>>
    /\ combo = <<>>
    /\ potions = <<>>
    /\ snapshot = None
    /\ effect = None

\* parse_plugin of a source not parsed yet, up to the records: the header
\* gives the MAST list and the light-master flag, which marks the source in
\* the LoadOrder
LoadHeader ==
    /\ pc = "idle"
    /\ \E name \in Range(last.order) \ Range(last.done) :
       \E mast \in LoadMasterLists(last.order, name), is_light_master \in BOOLEAN :
          /\ plugin_name' = name
          /\ masters' = mast
          /\ load_order' = IF is_light_master
                           THEN plugin_is_esl_flagged(load_order, name).lo
                           ELSE load_order
          /\ last' = [last EXCEPT !.op = "header", !.done = Append(@, name)]
    /\ pc' = "records"
    /\ UNCHANGED <<effect, snapshot, cache, parsed, errors, ingredients,
                   magic_effects, combo, potions>>

\* one record of the source: its form id is globalized; the minted id is
\* kept with the source that owns the record and the index that the
\* LoadOrder gave for it
LoadRecord ==
    /\ pc = "records"
    /\ Cardinality(parsed) + errors < MaxMinted
    /\ \E raw \in LoadRawFormIds :
          LET r == globalize_form_id(raw, plugin_name, masters, load_order)
          IN  /\ parsed' = IF r.ok
                           THEN parsed \cup
                                {[ owner     |-> owner_of(raw, plugin_name, masters),
                                   record_id |-> raw % TwoPow24,
                                   source    |-> plugin_name,
                                   prefix    |-> get_form_id_prefix(load_order,
                                                    owner_of(raw, plugin_name, masters)).val,
                                   id        |-> r.val ]}
                           ELSE parsed
              /\ errors' = IF r.ok THEN errors ELSE errors + 1
    /\ last' = [last EXCEPT !.op = "globalize"]
    /\ UNCHANGED <<effect, snapshot, cache, load_order, pc, plugin_name, masters,
                   ingredients, magic_effects, combo, potions>>

\* parse_plugin returns
LoadDone ==
    /\ pc = "records"
    /\ pc' = "idle"
    /\ last' = [last EXCEPT !.op = "parsed"]
    /\ UNCHANGED <<effect, snapshot, cache, load_order, plugin_name, masters, parsed,
                   errors, ingredients, magic_effects, combo, potions>>

NextLoad == LoadHeader \/ LoadRecord \/ LoadDone

SpecLoad == InitLoad /\ [][NextLoad]_vars

\* C27: the same record (same owning source, same 24-bit record id)
\* referenced from two sources globalizes to the same GlobalFormId, and two
\* records owned by different sources of the LoadOrder globalize to
\* different GlobalFormIds even when their record ids are equal.
C27_CrossFileConsistency ==
    \A r1, r2 \in parsed :
        /\ (r1.owner = r2.owner /\ r1.record_id = r2.record_id) => r1.id = r2.id
        /\ r1.owner # r2.owner => r1.id # r2.id

\* the half that holds: one record, referenced from two sources, gets one id
C27_SameRecordSameId ==
    \A r1, r2 \in parsed :
        (r1.owner = r2.owner /\ r1.record_id = r2.record_id) => r1.id = r2.id

\* every source of the load order has been parsed
LoadingFinished ==
    /\ pc = "idle"
    /\ Range(last.done) = Range(last.order)

\* C28: whatever the sequence of parse_plugin calls and whichever sources
\* are marked as light masters on the way, the index of every minted
\* GlobalFormId designates the source that owns the record in the LoadOrder
\* as it is when loading finishes.
C28_IndexStability ==
    LoadingFinished =>
        \A r \in parsed : get(load_order, r.id.load_order_index) = Some(r.owner)

\* the same for the index the LoadOrder gave when the id was minted
C28_LookedUpIndexStability ==
    LoadingFinished =>
        \A r \in parsed : get(load_order, r.prefix) = Some(r.owner)

\* the same again, when the sources are parsed in the order of the load
\* order and every master of a source stands before it
C28_LookedUpIndexStabilityInOrder ==
    /\ LoadingFinished
    /\ last.done = last.order
    /\ \A r \in parsed :
          \E i, j \in 1..Len(last.order) :
              i <= j /\ last.order[i] = r.owner /\ last.order[j] = r.source
    => \A r \in parsed : get(load_order, r.prefix) = Some(r.owner)

----------------------------------------------------------------------------
(* LoadOrder::drain_unused *)

\* Itertools::sorted_unstable().dedup(): the distinct values, ascending
RECURSIVE sorted_set(_)
sorted_set(S) ==
    IF S = {} THEN <<>> ELSE <<Min(S)>> \o sorted_set(S \ {Min(S)})

sorted_dedup(seq) == sorted_set(Range(seq))

\* collect::<AHashMap<String, u16>>() of (name at index, index) over the
\* sorted indexes: a later pair replaces an earlier one with the same name
used_entries_with_old_indexes(lo, used_indexes) ==
    LET idx   == sorted_dedup(used_indexes)
        names == {get(lo, idx[k]).val : k \in 1..Len(idx)}
    IN  [n \in names |-> idx[Max({k \in 1..Len(idx) : get(lo, idx[k]).val = n})]]

\* drain_unused whose map from old to new index is taken before the removal
drain_unused_stale_index(lo, used_indexes) ==
    IF \E i \in Range(used_indexes) : ~get(lo, i).some
    THEN [panicked |-> TRUE, lo |-> lo, remap |-> None]
    ELSE LET entries     == used_entries_with_old_indexes(lo, used_indexes)
             kept        == SelectSeq(lo.masters, LAMBDA e : e \in DOMAIN entries)
             num_removed == Len(lo.masters) - Len(kept)
             new_lo      == [lo EXCEPT !.masters = kept]
         IN  [ panicked |-> FALSE,
               lo       |-> new_lo,
               remap    |-> IF num_removed = 0 THEN None
                            ELSE Some([old \in {entries[n] : n \in DOMAIN entries} |->
                                        get_form_id_prefix(lo,
                                            CHOOSE n \in DOMAIN entries : entries[n] = old).val]) ]

\* drain_unused whose filter lost its negation
drain_unused_inverted(lo, used_indexes) ==
    IF \E i \in Range(used_indexes) : ~get(lo, i).some
    THEN [panicked |-> TRUE, lo |-> lo, remap |-> None]
    ELSE LET entries     == used_entries_with_old_indexes(lo, used_indexes)
             kept        == SelectSeq(lo.masters, LAMBDA e : e \notin DOMAIN entries)
             num_removed == Len(lo.masters) - Len(kept)
             new_lo      == [lo EXCEPT !.masters = kept]
         IN  [ panicked |-> FALSE,
               lo       |-> new_lo,
               remap    |-> IF num_removed = 0 THEN None
                            ELSE Some([old \in {entries[n] : n \in DOMAIN entries} |->
                                        LET p == get_form_id_prefix(new_lo,
                                                    CHOOSE n \in DOMAIN entries : entries[n] = old)
                                        IN  IF p.some THEN p.val ELSE 0]) ]

\* the LoadOrder after the call and the returned Option<map old -> new>;
\* `panicked` when get(index).unwrap() meets an index outside the LoadOrder
drain_unused(lo, used_indexes) ==
    IF \E i \in Range(used_indexes) : ~get(lo, i).some
    THEN [panicked |-> TRUE, lo |-> lo, remap |-> None]
    ELSE LET entries     == used_entries_with_old_indexes(lo, used_indexes)
             kept        == SelectSeq(lo.masters, LAMBDA e : e \in DOMAIN entries)
             num_removed == Len(lo.masters) - Len(kept)
             new_lo      == [lo EXCEPT !.masters = kept]
         IN  [ panicked |-> FALSE,
               lo       |-> new_lo,
               remap    |-> IF num_removed = 0 THEN None
                            ELSE Some([old \in {entries[n] : n \in DOMAIN entries} |->
                                        get_form_id_prefix(new_lo,
                                            CHOOSE n \in DOMAIN entries : entries[n] = old).val]) ]

----------------------------------------------------------------------------
(* drain_unused applied to a load order (SpecDrain) *)

\* longest load order handed to LoadOrder::new
MaxOrder == 4

\* longest iterator of used indexes (with repetitions, in any order)
MaxUsed == 3

\* names of the load orders that are compacted
DrainNames == {NameA, NameB, NameCC, NameD, NameE}

DrainOrders == InjectiveSeqs(DrainNames, MaxOrder)

\* the indexes an iterator of used indexes yields: those of the load order
\* and one past its end
UsedIndexSeqs(lo) ==
    UNION {[1..k -> 0..Len(lo.masters)] : k \in 0..MaxUsed}

InitDrain ==
    /\ \E order \in DrainOrders :
          /\ load_order = LoadOrder_new(order)
          /\ last = [op |-> "new", order |-> order]
    /\ cache = <<>>
    /\ pc = "idle"
    /\ plugin_name = <<>>
    /\ masters = <<>>
    /\ parsed = {}
    /\ errors = 0
    /\ ingredients = <<>>
    /\ magic_effects = <<>>
    /\ combo = <<>>
    /\ potions = <<>>
    /\ snapshot = None
    /\ effect = None

DrainUnused ==
    /\ pc = "idle"
    /\ \E used \in UsedIndexSeqs(load_order) :
          LET r == drain_unused(load_order, used)
          IN  /\ load_order' = r.lo
              /\ pc' = IF r.panicked THEN "panicked" ELSE "drained"
              /\ last' = [op |-> "drain", used |-> Range(used),
                          old |-> load_order.masters, remap |-> r.remap]
    /\ UNCHANGED <<effect, snapshot, cache, plugin_name, masters, parsed, errors, ingredients,
                   magic_effects, combo, potions>>

NextDrain == DrainUnused

SpecDrain == InitDrain /\ [][NextDrain]_vars

\* C3: after drain_unused(U) the name that was at an index of U is still in
\* the LoadOrder, and the name that was at an index outside U is not.
C3_CompactionInvariant ==
    pc = "drained" =>
        \A i \in 0..(Len(last.old) - 1) :
            /\ i \in last.used => last.old[i + 1] \in Range(load_order.masters)
            /\ i \notin last.used => last.old[i + 1] \notin Range(load_order.masters)

\* a compaction that removes an entry placed before an entry that stays
C3_Witness ==
    /\ pc = "drained"
    /\ Len(last.old) >= 3
    /\ \E i, j \in 0..(Len(last.old) - 1) :
          i < j /\ i \notin last.used /\ j \in last.used
    /\ Len(load_order.masters) >= 2

\* C4: when drain_unused(U) removes an entry, the returned map is a bijection
\* from the indexes of U onto 0..len-1, and it sends each index of U to the
\* position, after the removal, of the name that was at that index.
C4_RemapBijection ==
    pc = "drained" =>
        /\ last.remap.some <=> Len(load_order.masters) < Len(last.old)
        /\ last.remap.some =>
              LET remap == last.remap.val
              IN  /\ DOMAIN remap = last.used
                  /\ \A i, j \in DOMAIN remap : i # j => remap[i] # remap[j]
                  /\ {remap[i] : i \in DOMAIN remap} = 0..(Len(load_order.masters) - 1)
                  /\ \A i \in DOMAIN remap :
                        load_order.masters[remap[i] + 1] = last.old[i + 1]

\* a returned map that moves an index
C4_Witness ==
    /\ pc = "drained"
    /\ last.remap.some
    /\ Cardinality(last.used) >= 2
    /\ \E i \in DOMAIN last.remap.val : last.remap.val[i] # i

\* the name handed to LoadOrder::new at position p (0-based) is found at
\* index p, whatever its casing, and get(p) returns it as it was given
StoredAtItsPosition(order, p) ==
    /\ get_form_id_prefix(load_order, order[p + 1]) = Some(p)
    /\ get_form_id_prefix(load_order, Lower(order[p + 1])) = Some(p)
    /\ get(load_order, p) = Some(order[p + 1])

\* C20: LoadOrder::new stores all given names in the given order: the name
\* at position p of the list is looked up, ignoring ASCII case, at index p,
\* and get(p) returns it with its original casing.
C20_StoredInGivenOrder ==
    last.op = "new" =>
        \A p \in 0..(Len(last.order) - 1) : StoredAtItsPosition(last.order, p)

\* what does hold: a list without Creation Club light masters is stored as
\* given
C20_StoredInGivenOrderWithoutCreationClub ==
    /\ last.op = "new"
    /\ \A p \in 1..Len(last.order) : ~is_creation_club_light_master(last.order[p])
    => \A p \in 0..(Len(last.order) - 1) : StoredAtItsPosition(last.order, p)

----------------------------------------------------------------------------
(* GameData *)

GlobalFormId(load_order_index, id) ==
    [load_order_index |-> load_order_index, id |-> id]

\* Ord for GlobalFormId: by load_order_index, then by id
form_id_less(a, b) ==
    \/ a.load_order_index < b.load_order_index
    \/ a.load_order_index = b.load_order_index /\ a.id < b.id

\* Display and FromStr for GlobalFormId

\* the decimal digits of n, as ASCII bytes
RECURSIVE decimal_digits(_)
decimal_digits(n) ==
    IF n < 10 THEN <<48 + n>>
    ELSE decimal_digits(n \div 10) \o <<48 + (n % 10)>>

\* the lowercase hexadecimal digits of n, as ASCII bytes
RECURSIVE lower_hex_digits(_)
lower_hex_digits(n) ==
    LET d == n % 16
        c == IF d < 10 THEN 48 + d ELSE 97 + (d - 10)
    IN  IF n < 16 THEN <<c>> ELSE lower_hex_digits(n \div 16) \o <<c>>

\* {:0width}: zeros in front up to the width, nothing cut off
RECURSIVE pad_zeros(_, _)
pad_zeros(digits, width) ==
    IF Len(digits) >= width THEN digits ELSE pad_zeros(<<48>> \o digits, width)

\* write!(f, "{:04}:{:06x}", self.load_order_index, self.id)
GlobalFormId_fmt(self) ==
    pad_zeros(decimal_digits(self.load_order_index), 4)
        \o <<58>> \o pad_zeros(lower_hex_digits(self.id), 6)

\* s.split(':'): the parts between the colons
RECURSIVE split_colon(_)
split_colon(str) ==
    LET C == {i \in 1..Len(str) : str[i] = 58}
    IN  IF C = {} THEN <<str>>
        ELSE <<SubSeq(str, 1, Min(C) - 1)>>
                 \o split_colon(SubSeq(str, Min(C) + 1, Len(str)))

\* the value of a digit in the radix, or -1
digit_value(c, radix) ==
    LET v == IF c >= 48 /\ c <= 57 THEN c - 48
             ELSE IF c >= 97 /\ c <= 122 THEN c - 97 + 10
             ELSE IF c >= 65 /\ c <= 90 THEN c - 65 + 10
             ELSE -1
    IN  IF v < radix THEN v ELSE -1

RECURSIVE digits_value(_, _)
digits_value(digits, radix) ==
    IF digits = <<>> THEN 0
    ELSE digits_value(SubSeq(digits, 1, Len(digits) - 1), radix) * radix
             + digit_value(digits[Len(digits)], radix)

\* the digits without their leading zeros
RECURSIVE strip_zeros(_)
strip_zeros(digits) ==
    IF digits # <<>> /\ digits[1] = 48 THEN strip_zeros(Tail(digits)) ELSE digits

\* the digits of a part: an optional + in front is accepted
unsigned_digits(part) ==
    IF part # <<>> /\ part[1] = 43 THEN Tail(part) ELSE part

\* part.parse::<u16>()
parse_u16(part) ==
    LET digits == unsigned_digits(part)
    IN  IF digits = <<>> THEN Err("cannot parse integer from empty string")
        ELSE IF \E i \in 1..Len(digits) : digit_value(digits[i], 10) < 0
        THEN Err("invalid digit found in string")
        ELSE IF Len(strip_zeros(digits)) > 5
        THEN Err("number too large to fit in target type")
        ELSE IF digits_value(strip_zeros(digits), 10) > 65535
        THEN Err("number too large to fit in target type")
        ELSE Ok(digits_value(strip_zeros(digits), 10))

\* u32::from_str_radix(part, radix): 8 hexadecimal digits always fit; of the
\* decimal numbers and of the hexadecimal ones the model only meets those
\* below 2^31
u32_from_str_radix(part, radix) ==
    LET digits == unsigned_digits(part)
    IN  IF digits = <<>> THEN Err("cannot parse integer from empty string")
        ELSE IF \E i \in 1..Len(digits) : digit_value(digits[i], radix) < 0
        THEN Err("invalid digit found in string")
        ELSE IF Len(strip_zeros(digits)) > (IF radix = 16 THEN 8 ELSE 10)
        THEN Err("number too large to fit in target type")
        ELSE Ok(digits_value(strip_zeros(digits), radix))

\* from_str that reads the id as a decimal number
GlobalFormId_from_str_decimal(str) ==
    LET parts == split_colon(str)
        load_order_index == parse_u16(parts[1])
    IN  IF ~load_order_index.ok THEN load_order_index
        ELSE IF Len(parts) < 2 THEN Err("Missing second value")
        ELSE LET id == u32_from_str_radix(parts[2], 10)
             IN  IF ~id.ok THEN id
                 ELSE Ok(GlobalFormId(load_order_index.val, id.val))

\* impl FromStr for GlobalFormId: the first part as a decimal u16, the
\* second as a hexadecimal u32, further parts ignored (split always yields
\* a first part, so "Missing first value" cannot happen)
GlobalFormId_from_str(str) ==
    LET parts == split_colon(str)
        load_order_index == parse_u16(parts[1])
    IN  IF ~load_order_index.ok THEN load_order_index
        ELSE IF Len(parts) < 2 THEN Err("Missing second value")
        ELSE LET id == u32_from_str_radix(parts[2], 16)
             IN  IF ~id.ok THEN id
                 ELSE Ok(GlobalFormId(load_order_index.val, id.val))

\* the values of a map, as the Vec some iteration over the map yields
RECURSIVE values_by_key(_)
values_by_key(map) ==
    IF DOMAIN map = {} THEN <<>>
    ELSE LET k == CHOOSE x \in DOMAIN map :
                      \A y \in DOMAIN map : ~form_id_less(y, x)
         IN  <<map[k]>> \o values_by_key([x \in DOMAIN map \ {k} |-> map[x]])

\* into_iter().map(|v| (v.get_global_form_id(), v)).collect()
collect_by_form_id(vals) ==
    [k \in {vals[i].global_form_id : i \in 1..Len(vals)} |->
        vals[Max({i \in 1..Len(vals) : vals[i].global_form_id = k})]]

set_load_order_index(form_id, new_index) ==
    [form_id EXCEPT !.load_order_index = new_index]

\* the loop that rewrites global_form_id.load_order_index of every value
\* through the map drain_unused returned (the effects of an Ingredient are
\* left as they are)
remap_values(vals, index_remap_data) ==
    [i \in 1..Len(vals) |->
        [vals[i] EXCEPT !.global_form_id =
            set_load_order_index(@, index_remap_data[@.load_order_index])]]

\* the construction shared by from_hashmaps and from_vecs. The code reads
\* index_remap_data.get(..).unwrap() whether or not drain_unused returned a
\* map; when it returned None the call either panics or keeps the ids,
\* as on_none says.
construct(lo, ingredient_vals, magic_effect_vals, on_none) ==
    LET used_indexes ==
            [i \in 1..Len(ingredient_vals) |->
                ingredient_vals[i].global_form_id.load_order_index] \o
            [i \in 1..Len(magic_effect_vals) |->
                magic_effect_vals[i].global_form_id.load_order_index]
        drained == drain_unused(lo, used_indexes)
    IN  IF drained.panicked \/ (~drained.remap.some /\ on_none = "panic")
        THEN [panicked |-> TRUE, remap |-> None]
        ELSE [ panicked      |-> FALSE,
               remap         |-> drained.remap,
               load_order    |-> drained.lo,
               ingredients   |-> collect_by_form_id(
                                    IF drained.remap.some
                                    THEN remap_values(ingredient_vals, drained.remap.val)
                                    ELSE ingredient_vals),
               magic_effects |-> collect_by_form_id(
                                    IF drained.remap.some
                                    THEN remap_values(magic_effect_vals, drained.remap.val)
                                    ELSE magic_effect_vals) ]

from_hashmaps(lo, ingredient_map, magic_effect_map, on_none) ==
    construct(lo, values_by_key(ingredient_map), values_by_key(magic_effect_map),
              on_none)

from_vecs(order, ingredient_vec, magic_effect_vec, on_none) ==
    construct(LoadOrder_new(order), ingredient_vec, magic_effect_vec, on_none)

\* the unknown form ids of one ingredient, in the order of its effects
unknown_ingefs(ing, mgefs) ==
    LET unknown == SelectSeq(ing.effects,
                             LAMBDA ingef : ingef.global_form_id \notin DOMAIN mgefs)
    IN  [j \in 1..Len(unknown) |-> unknown[j].global_form_id]

\* validate fail-fast: it stops at the first ingredient with an unknown id
validate_fail_fast(ings, mgefs, order) ==
    LET entries == [i \in 1..Len(order) |->
                       [ ing     |-> ings[order[i]],
                         unknown |-> unknown_ingefs(ings[order[i]], mgefs) ]]
        errs    == SelectSeq(entries, LAMBDA e : e.unknown # <<>>)
    IN  IF errs = <<>> THEN Ok("unit") ELSE Err(<<errs[1]>>)

\* validate, with `order` the order in which the map yields its values
validate(ings, mgefs, order) ==
    LET entries == [i \in 1..Len(order) |->
                       [ ing     |-> ings[order[i]],
                         unknown |-> unknown_ingefs(ings[order[i]], mgefs) ]]
        errs    == SelectSeq(entries, LAMBDA e : e.unknown # <<>>)
    IN  IF errs = <<>> THEN Ok("unit") ELSE Err(errs)

\* the keys of a map in ascending order
keys_by_key(map) ==
    LET vals == values_by_key(map)
    IN  [i \in 1..Len(vals) |-> vals[i].global_form_id]

\* purge_invalid that removes the first reported ingredient only
purge_invalid_first_only(ings, mgefs) ==
    LET res == validate(ings, mgefs, keys_by_key(ings))
    IN  IF res.ok THEN ings
        ELSE [k \in DOMAIN ings \ {res.err[1].ing.global_form_id} |-> ings[k]]

\* purge_invalid that empties the map when validate reports anything
purge_invalid_everything(ings, mgefs) ==
    LET res == validate(ings, mgefs, keys_by_key(ings))
    IN  IF res.ok THEN ings ELSE [k \in {} |-> ings[k]]

\* purge_invalid that leaves the last reported ingredient for the next call
purge_invalid_but_last(ings, mgefs) ==
    LET res == validate(ings, mgefs, keys_by_key(ings))
    IN  IF res.ok THEN ings
        ELSE [k \in DOMAIN ings \
                  {res.err[i].ing.global_form_id : i \in 1..(Len(res.err) - 1)} |->
                 ings[k]]

\* the ingredients map after purge_invalid
purge_invalid(ings, mgefs) ==
    LET res == validate(ings, mgefs, keys_by_key(ings))
    IN  IF res.ok THEN ings
        ELSE LET ingredients_form_ids_to_remove ==
                     {res.err[i].ing.global_form_id : i \in 1..Len(res.err)}
             IN  [k \in DOMAIN ings \ ingredients_form_ids_to_remove |-> ings[k]]

\* Serialize of a record with a GlobalFormId: the id is written as its
\* Display text (SerializeDisplay)
serialize_form_id(x) ==
    [x EXCEPT !.global_form_id = GlobalFormId_fmt(@)]

serialize_ingredient(ing) ==
    [serialize_form_id(ing) EXCEPT !.effects =
        [j \in 1..Len(@) |-> serialize_form_id(@[j])]]

\* impl Serialize for GameData: the masters of the load order, the values
\* of the two maps in the order their iteration yields them
GameData_serialize(lo, ings, mgefs, ingredient_order, magic_effect_order) ==
    [ load_order    |-> lo.masters,
      ingredients   |-> [i \in 1..Len(ingredient_order) |->
                            serialize_ingredient(ings[ingredient_order[i]])],
      magic_effects |-> [i \in 1..Len(magic_effect_order) |->
                            serialize_form_id(mgefs[magic_effect_order[i]])] ]

\* Deserialize of a record with a GlobalFormId: the id is read with FromStr
\* (DeserializeFromStr), which may refuse it
deserialize_form_id(x) ==
    LET global_form_id == GlobalFormId_from_str(x.global_form_id)
    IN  IF global_form_id.ok
        THEN Ok([x EXCEPT !.global_form_id = global_form_id.val])
        ELSE global_form_id

\* Vec<T>: the elements in their order, or the first error
deserialize_vec(elements) ==
    IF \A i \in 1..Len(elements) : elements[i].ok
    THEN Ok([i \in 1..Len(elements) |-> elements[i].val] \o <<>>)
    ELSE elements[Min({i \in 1..Len(elements) : ~elements[i].ok})]

deserialize_ingredient(ing) ==
    LET effects == deserialize_vec(
                       [j \in 1..Len(ing.effects) |->
                           deserialize_form_id(ing.effects[j])] \o <<>>)
        own     == deserialize_form_id(ing)
    IN  IF ~own.ok THEN own
        ELSE IF ~effects.ok THEN effects
        ELSE Ok([own.val EXCEPT !.effects = effects.val])

deserialize_ingredients(doc) ==
    deserialize_vec([i \in 1..Len(doc.ingredients) |->
                        deserialize_ingredient(doc.ingredients[i])] \o <<>>)

deserialize_magic_effects(doc) ==
    deserialize_vec([i \in 1..Len(doc.magic_effects) |->
                        deserialize_form_id(doc.magic_effects[i])] \o <<>>)

\* impl Deserialize for GameData: GameDataVisitor reads the three fields
\* and hands them to from_vecs
GameData_deserialize(doc, on_none) ==
    LET ingredient_vec   == deserialize_ingredients(doc)
        magic_effect_vec == deserialize_magic_effects(doc)
    IN  IF ~ingredient_vec.ok THEN ingredient_vec
        ELSE IF ~magic_effect_vec.ok THEN magic_effect_vec
        ELSE Ok(from_vecs(doc.load_order, ingredient_vec.val,
                          magic_effect_vec.val, on_none))

----------------------------------------------------------------------------
(* GameData: construction, validate, purge_invalid (SpecGameData) *)

\* most ingredients in the data handed to the constructors
MaxIngredients == 2

\* the load order of the data: "A.esm", "B.esp", "D.esl"
GameOrder == <<NameA, NameB, NameD>>

GameIndexes == 0..(Len(GameOrder) - 1)

\* one ingredient record per plugin of the load order
IngredientIds == {GlobalFormId(i, 1) : i \in GameIndexes}

\* one magic effect record per plugin of the load order
MagicEffectIds == {GlobalFormId(i, 2) : i \in GameIndexes}

IngredientEffect(form_id) ==
    [global_form_id |-> form_id, magnitude |-> 1, duration |-> 0]

\* the effects of an ingredient: any set of effect ids, sorted
EffectLists ==
    {[j \in 1..Len(sorted_set({f.load_order_index : f \in E})) |->
         IngredientEffect(GlobalFormId(
             sorted_set({f.load_order_index : f \in E})[j], 2))] :
     E \in SUBSET MagicEffectIds}

\* the ingredient maps: up to MaxIngredients ingredients, keyed by their id
IngredientMaps ==
    UNION {[K -> EffectLists] :
              K \in {S \in SUBSET IngredientIds : Cardinality(S) <= MaxIngredients}}

Ingredient(form_id, effects) ==
    [ global_form_id |-> form_id,
      editor_id      |-> <<"INGR", form_id.load_order_index>>,
      effects        |-> effects ]

MagicEffect(form_id) ==
    [ global_form_id |-> form_id,
      editor_id      |-> <<"MGEF", form_id.load_order_index>> ]

IterationOrders(S) ==
    {p \in [1..Cardinality(S) -> S] :
        \A i, j \in 1..Cardinality(S) : i # j => p[i] # p[j]}

\* the maps the caller built from the parsed records, before construction
InitGameData ==
    /\ load_order = LoadOrder_new(GameOrder)
    /\ \E m \in IngredientMaps :
          ingredients = [k \in DOMAIN m |-> Ingredient(k, m[k])]
    /\ \E M \in SUBSET MagicEffectIds :
          magic_effects = [k \in M |-> MagicEffect(k)]
    /\ cache = <<>>
    /\ pc = "input"
    /\ last = NoCall
    /\ plugin_name = <<>>
    /\ masters = <<>>
    /\ parsed = {}
    /\ errors = 0
    /\ combo = <<>>
    /\ potions = <<>>
    /\ snapshot = None
    /\ effect = None

\* installs the outcome of a constructor
Built(op, r) ==
    /\ pc' = IF r.panicked THEN "panicked" ELSE "built"
    /\ last' = [ op |-> op, remap |-> r.remap, order |-> load_order.masters,
                 ingredients |-> ingredients, magic_effects |-> magic_effects ]
    /\ load_order' = IF r.panicked THEN load_order ELSE r.load_order
    /\ ingredients' = IF r.panicked THEN ingredients ELSE r.ingredients
    /\ magic_effects' = IF r.panicked THEN magic_effects ELSE r.magic_effects
    /\ UNCHANGED <<effect, snapshot, cache, plugin_name, masters, parsed, errors, combo, potions>>

FromHashmaps ==
    /\ pc = "input"
    /\ \E on_none \in {"keep", "panic"} :
          Built("from_hashmaps",
                from_hashmaps(load_order, ingredients, magic_effects, on_none))

\* deserialization: the load order, the ingredients and the magic effects
\* arrive as lists
FromVecs ==
    /\ pc = "input"
    /\ \E on_none \in {"keep", "panic"} :
          Built("from_vecs",
                from_vecs(load_order.masters, values_by_key(ingredients),
                          values_by_key(magic_effects), on_none))

Validate ==
    /\ pc \in {"built", "purged"}
    /\ \E order \in IterationOrders(DOMAIN ingredients) :
          last' = [op |-> "validate",
                   result |-> validate(ingredients, magic_effects, order)]
    /\ UNCHANGED <<effect, snapshot, cache, load_order, pc, plugin_name, masters, parsed, errors,
                   ingredients, magic_effects, combo, potions>>

PurgeInvalid ==
    /\ pc \in {"built", "purged"}
    /\ ingredients' = purge_invalid(ingredients, magic_effects)
    /\ pc' = "purged"
    /\ last' = [ op |-> "purge_invalid", ingredients |-> ingredients,
                 magic_effects |-> magic_effects, load_order |-> load_order,
                 repeated |-> (last.op = "purge_invalid") ]
    /\ UNCHANGED <<effect, snapshot, cache, load_order, plugin_name, masters, parsed, errors,
                   magic_effects, combo, potions>>

\* serde_json::to_writer(&game_data): the GameData is left as it is
Serialize ==
    /\ pc \in {"built", "purged"}
    /\ \E ingredient_order \in IterationOrders(DOMAIN ingredients) :
       \E magic_effect_order \in IterationOrders(DOMAIN magic_effects) :
          snapshot' = Some(GameData_serialize(load_order, ingredients, magic_effects,
                                              ingredient_order, magic_effect_order))
    /\ pc' = "serialized"
    /\ last' = [op |-> "serialize", purged |-> (pc = "purged")]
    /\ UNCHANGED <<effect, cache, load_order, plugin_name, masters, parsed, errors,
                   ingredients, magic_effects, combo, potions>>

\* serde_json::from_reader of the snapshot just written: the reader is
\* consumed, the GameData read takes the place of the one that was serialized
Deserialize ==
    /\ pc = "serialized"
    /\ snapshot.some
    /\ \E on_none \in {"keep", "panic"} :
       \E res \in {GameData_deserialize(snapshot.val, on_none)} :
          LET r == IF res.ok THEN res.val ELSE [panicked |-> TRUE, remap |-> None]
          IN  /\ pc' = IF r.panicked THEN "panicked" ELSE "deserialized"
              /\ last' = [ op |-> "deserialize", remap |-> r.remap,
                           purged |-> last.purged,
                           load_order |-> load_order,
                           ingredients |-> ingredients,
                           magic_effects |-> magic_effects ]
              /\ load_order' = IF r.panicked THEN load_order ELSE r.load_order
              /\ ingredients' = IF r.panicked THEN ingredients ELSE r.ingredients
              /\ magic_effects' = IF r.panicked THEN magic_effects ELSE r.magic_effects
    /\ snapshot' = None
    /\ UNCHANGED <<effect, cache, plugin_name, masters, parsed, errors, combo, potions>>

NextGameData ==
    FromHashmaps \/ FromVecs \/ Validate \/ PurgeInvalid \/ Serialize \/ Deserialize

SpecGameData == InitGameData /\ [][NextGameData]_vars

\* the live ingredient that came from the ingredient `ing` handed to the
\* constructor (the records keep their editor id)
BuiltFrom(ing) ==
    CHOOSE k \in DOMAIN ingredients : ingredients[k].editor_id = ing.editor_id

LastConstructed ==
    /\ pc = "built"
    /\ last.op \in {"from_hashmaps", "from_vecs"}
    /\ last.remap.some

\* C5: when the compaction returns a map, the constructors rewrite the id of
\* every ingredient, of every magic effect and of every effect nested in an
\* ingredient through it, so that an effect reference that resolved to a
\* magic effect before the construction resolves to the same one after it.
C5_RemapKeepsReferences ==
    LastConstructed =>
        \A k \in DOMAIN last.ingredients :
            LET before == last.ingredients[k]
                after  == ingredients[BuiltFrom(before)]
            IN  /\ after.global_form_id.load_order_index =
                       last.remap.val[before.global_form_id.load_order_index]
                /\ \A j \in 1..Len(before.effects) :
                      LET ref == before.effects[j].global_form_id
                      IN  ref \in DOMAIN last.magic_effects =>
                            /\ after.effects[j].global_form_id.load_order_index =
                                   last.remap.val[ref.load_order_index]
                            /\ after.effects[j].global_form_id \in DOMAIN magic_effects
                            /\ magic_effects[after.effects[j].global_form_id].editor_id =
                                   last.magic_effects[ref].editor_id

\* what the constructors do rewrite: the ids (and keys) of the ingredients
\* and of the magic effects
C5_RemapRewritesKeys ==
    LastConstructed =>
        /\ \A k \in DOMAIN last.ingredients :
              set_load_order_index(k, last.remap.val[k.load_order_index])
                  \in DOMAIN ingredients
        /\ \A k \in DOMAIN last.magic_effects :
              LET new == set_load_order_index(k, last.remap.val[k.load_order_index])
              IN  /\ new \in DOMAIN magic_effects
                  /\ magic_effects[new].editor_id = last.magic_effects[k].editor_id

\* the ingredients with an effect id that is no key of magic_effects
Dangling ==
    {k \in DOMAIN ingredients :
        \E j \in 1..Len(ingredients[k].effects) :
            ingredients[k].effects[j].global_form_id \notin DOMAIN magic_effects}

\* C6: validate returns one error entry for each ingredient with an effect
\* id that is no key of magic_effects, the entry listing all such ids of the
\* ingredient; no entry for any other ingredient; Ok iff there is none.
C6_ValidateComplete ==
    last.op = "validate" =>
        /\ last.result.ok <=> Dangling = {}
        /\ ~last.result.ok =>
              LET errs == last.result.err
              IN  /\ \A k \in DOMAIN ingredients :
                        Cardinality({i \in 1..Len(errs) :
                                        errs[i].ing.global_form_id = k})
                            = IF k \in Dangling THEN 1 ELSE 0
                  /\ \A i \in 1..Len(errs) :
                        /\ errs[i].ing.global_form_id \in DOMAIN ingredients
                        /\ errs[i].ing = ingredients[errs[i].ing.global_form_id]
                        /\ Range(errs[i].unknown) =
                               {e.global_form_id : e \in Range(errs[i].ing.effects)}
                                   \ DOMAIN magic_effects

\* two ingredients reported at once, one of them with two unknown ids
C6_Witness ==
    /\ last.op = "validate"
    /\ ~last.result.ok
    /\ Len(last.result.err) = 2
    /\ \E i \in 1..2 : Len(last.result.err[i].unknown) = 2
    /\ magic_effects # <<>>

\* C7: after purge_invalid every effect id of every remaining ingredient is
\* a key of magic_effects.
C7_PurgedReferencesResolve ==
    pc = "purged" =>
        \A k \in DOMAIN ingredients :
            \A j \in 1..Len(ingredients[k].effects) :
                ingredients[k].effects[j].global_form_id \in DOMAIN magic_effects

\* a purge that removed two ingredients
C7_Witness ==
    /\ pc = "purged"
    /\ last.op = "purge_invalid"
    /\ Cardinality(DOMAIN last.ingredients) = Cardinality(DOMAIN ingredients) + 2

\* C21: purge_invalid called twice in a row leaves the GameData as the first
\* call left it: at the second call validate returns Ok for every iteration
\* order and nothing is removed.
C21_PurgeIdempotent ==
    (last.op = "purge_invalid" /\ last.repeated) =>
        /\ ingredients = last.ingredients
        /\ magic_effects = last.magic_effects
        /\ load_order = last.load_order
        /\ \A order \in IterationOrders(DOMAIN last.ingredients) :
              validate(last.ingredients, last.magic_effects, order).ok

\* a second call in a row, on data that still holds an ingredient and a
\* magic effect
C21_Witness ==
    /\ last.op = "purge_invalid"
    /\ last.repeated
    /\ pc = "purged"
    /\ ingredients # <<>>
    /\ magic_effects # <<>>
    /\ Cardinality(DOMAIN ingredients) < MaxIngredients

\* the ingredients of a map with an effect id that is no key of mgefs
DanglingIn(ings, mgefs) ==
    {k \in DOMAIN ings :
        \E j \in 1..Len(ings[k].effects) :
            ings[k].effects[j].global_form_id \notin DOMAIN mgefs}

\* C22: purge_invalid removes exactly the ingredients validate reports and
\* changes nothing else: the other ingredients are kept as they were, and
\* magic_effects (unreferenced entries included) and the load order are
\* untouched.
C22_PurgeFrame ==
    last.op = "purge_invalid" =>
        /\ DOMAIN ingredients =
               DOMAIN last.ingredients \ DanglingIn(last.ingredients, last.magic_effects)
        /\ \A k \in DOMAIN ingredients : ingredients[k] = last.ingredients[k]
        /\ magic_effects = last.magic_effects
        /\ load_order = last.load_order

\* a purge that removed one ingredient and kept another, and left behind a
\* magic effect that only the removed ingredient referenced
C22_Witness ==
    /\ last.op = "purge_invalid"
    /\ DOMAIN ingredients # {}
    /\ DOMAIN ingredients # DOMAIN last.ingredients
    /\ \E m \in DOMAIN magic_effects :
          /\ \E k \in DOMAIN last.ingredients \ DOMAIN ingredients :
                \E j \in 1..Len(last.ingredients[k].effects) :
                    last.ingredients[k].effects[j].global_form_id = m
          /\ \A k \in DOMAIN ingredients :
                \A j \in 1..Len(ingredients[k].effects) :
                    ingredients[k].effects[j].global_form_id # m

\* the GameData read from the snapshot equals the one that was serialized
SameAsSerialized ==
    /\ load_order.masters = last.load_order.masters
    /\ DOMAIN ingredients = DOMAIN last.ingredients
    /\ DOMAIN magic_effects = DOMAIN last.magic_effects
    /\ ingredients = last.ingredients
    /\ magic_effects = last.magic_effects

\* C18: deserializing the serialized form of a GameData that was constructed
\* and then optionally purged yields a GameData with the same load order,
\* the same ingredient keys and magic effect keys and the same field values,
\* nested effect ids included.
C18_SnapshotRoundTrip ==
    pc = "deserialized" => SameAsSerialized

\* the indexes of the load order that a key of either map uses
UsedIndexes(ings, mgefs) ==
    {k.load_order_index : k \in DOMAIN ings \cup DOMAIN mgefs}

\* what does hold: the round trip of a GameData in which every entry of the
\* load order is used by an ingredient or a magic effect
C18_RoundTripWhenEveryPluginIsUsed ==
    /\ pc = "deserialized"
    /\ UsedIndexes(last.ingredients, last.magic_effects) =
           0..(Len(last.load_order.masters) - 1)
    => SameAsSerialized

----------------------------------------------------------------------------
(* Ingredient::shares_effects_with, Ingredient::effects_shared_with and the
   filters of PotionsList::build_potions_2 / build_potions_3 *)

\* PartialEq of IngredientEffect is derived: every field takes part (the
\* form id, mod name and id of the effect are its global_form_id here)
ingredient_effect_eq(x, y) ==
    /\ x.global_form_id = y.global_form_id
    /\ x.duration = y.duration
    /\ x.magnitude = y.magnitude

shares_effects_with(self, other) ==
    \E i \in 1..Len(self.effects) :
        \E j \in 1..Len(other.effects) :
            ingredient_effect_eq(other.effects[j], self.effects[i])

\* the effects of self whose effect id other has too
effects_shared_with(self, other) ==
    SelectSeq(self.effects,
              LAMBDA self_effect :
                  \E j \in 1..Len(other.effects) :
                      other.effects[j].global_form_id = self_effect.global_form_id)

\* collect::<AHashSet<_>>() of the effect ids of an edge
edge_ids(edge) == {edge[i].global_form_id : i \in 1..Len(edge)}

symmetric_difference(s, t) == (s \ t) \cup (t \ s)

\* edges_are_not_the_same that asks every pair of edges to differ
edges_are_not_the_same_all(edge_1, edge_2, edge_3) ==
    IF edge_3.some
    THEN LET edges_1_2_have_diff ==
                 symmetric_difference(edge_ids(edge_1), edge_ids(edge_2)) # {}
             edges_2_3_have_diff ==
                 symmetric_difference(edge_ids(edge_2), edge_ids(edge_3.val)) # {}
             edges_3_1_have_diff ==
                 symmetric_difference(edge_ids(edge_3.val), edge_ids(edge_1)) # {}
         IN  edges_1_2_have_diff /\ edges_3_1_have_diff /\ edges_2_3_have_diff
    ELSE symmetric_difference(edge_ids(edge_1), edge_ids(edge_2)) # {}

edges_are_not_the_same(edge_1, edge_2, edge_3) ==
    IF edge_3.some
    THEN LET edges_1_2_have_diff ==
                 symmetric_difference(edge_ids(edge_1), edge_ids(edge_2)) # {}
             edges_2_3_have_diff ==
                 symmetric_difference(edge_ids(edge_2), edge_ids(edge_3.val)) # {}
             edges_3_1_have_diff ==
                 symmetric_difference(edge_ids(edge_3.val), edge_ids(edge_1)) # {}
         IN  \/ edges_1_2_have_diff /\ (edges_3_1_have_diff \/ edges_2_3_have_diff)
             \/ edges_3_1_have_diff /\ edges_2_3_have_diff
    ELSE symmetric_difference(edge_ids(edge_1), edge_ids(edge_2)) # {}

\* the filter closure of build_potions_2
combo_2_is_valid(a, b) == shares_effects_with(a, b)

\* the filter of build_potions_3 without the arm for the edges a-b and c-a
combo_3_is_valid_without_arm(a, b, c) ==
    LET a_b_effects == effects_shared_with(a, b)
        b_c_effects == effects_shared_with(b, c)
        c_a_effects == effects_shared_with(c, a)
        a_shares_effects_with_b == a_b_effects # <<>>
        b_shares_effects_with_c == b_c_effects # <<>>
        c_shares_effects_with_a == c_a_effects # <<>>
    IN  IF a_shares_effects_with_b /\ b_shares_effects_with_c /\ ~c_shares_effects_with_a
        THEN edges_are_not_the_same(a_b_effects, b_c_effects, None)
        ELSE IF ~a_shares_effects_with_b /\ b_shares_effects_with_c /\ c_shares_effects_with_a
        THEN edges_are_not_the_same(b_c_effects, c_a_effects, None)
        ELSE IF a_shares_effects_with_b /\ b_shares_effects_with_c /\ c_shares_effects_with_a
        THEN edges_are_not_the_same(a_b_effects, b_c_effects, Some(c_a_effects))
        ELSE FALSE

\* the filter closure of build_potions_3
combo_3_is_valid(a, b, c) ==
    LET a_b_effects == effects_shared_with(a, b)
        b_c_effects == effects_shared_with(b, c)
        c_a_effects == effects_shared_with(c, a)
        a_shares_effects_with_b == a_b_effects # <<>>
        b_shares_effects_with_c == b_c_effects # <<>>
        c_shares_effects_with_a == c_a_effects # <<>>
    IN  IF a_shares_effects_with_b /\ b_shares_effects_with_c /\ ~c_shares_effects_with_a
        THEN edges_are_not_the_same(a_b_effects, b_c_effects, None)
        ELSE IF a_shares_effects_with_b /\ ~b_shares_effects_with_c /\ c_shares_effects_with_a
        THEN edges_are_not_the_same(a_b_effects, c_a_effects, None)
        ELSE IF ~a_shares_effects_with_b /\ b_shares_effects_with_c /\ c_shares_effects_with_a
        THEN edges_are_not_the_same(b_c_effects, c_a_effects, None)
        ELSE IF a_shares_effects_with_b /\ b_shares_effects_with_c /\ c_shares_effects_with_a
        THEN edges_are_not_the_same(a_b_effects, b_c_effects, Some(c_a_effects))
        ELSE FALSE

----------------------------------------------------------------------------
(* The 3-ingredient filter over every triple of ingredients (SpecTriples) *)

\* effect ids 1..MaxEffectId of the ingredients of a triple
MaxEffectId == 4

\* the effects Vec of an ingredient with the effect ids E: sorted by id
effects_of(E) ==
    [j \in 1..Cardinality(E) |->
        [global_form_id |-> GlobalFormId(0, sorted_set(E)[j]),
         magnitude |-> 1, duration |-> 0]]

TripleIngredient(n, E) == [name |-> n, effects |-> effects_of(E)]

InitTriples ==
    /\ \E Ea, Eb, Ec \in SUBSET (1..MaxEffectId) :
          combo = <<TripleIngredient(1, Ea), TripleIngredient(2, Eb),
                    TripleIngredient(3, Ec)>>
    /\ cache = <<>>
    /\ pc = "combo"
    /\ potions = <<>>
    /\ last = NoCall
    /\ load_order = LoadOrder_new(<<>>)
    /\ plugin_name = <<>>
    /\ masters = <<>>
    /\ parsed = {}
    /\ errors = 0
    /\ ingredients = <<>>
    /\ magic_effects = <<>>
    /\ snapshot = None
    /\ effect = None

\* the filter of build_potions_3 on the combination
FilterCombo3 ==
    /\ pc = "combo"
    /\ Len(combo) = 3
    /\ last' = [op |-> "filter_3",
                kept |-> combo_3_is_valid(combo[1], combo[2], combo[3])]
    /\ pc' = "filtered"
    /\ UNCHANGED <<effect, snapshot, cache, load_order, plugin_name, masters, parsed, errors,
                   ingredients, magic_effects, combo, potions>>

NextTriples == FilterCombo3

SpecTriples == InitTriples /\ [][NextTriples]_vars

\* the effect ids of the i-th ingredient of the combination
Ids(i) == {combo[i].effects[j].global_form_id : j \in 1..Len(combo[i].effects)}

\* the effect ids two ingredients of the combination share
Shared(i, j) == Ids(i) \cap Ids(j)

\* the edges of the triangle: the pairs that share an effect id
Edges == {e \in {<<1, 2>>, <<2, 3>>, <<3, 1>>} : Shared(e[1], e[2]) # {}}

Contributes(i, j, k) ==
    \E e \in Ids(i) : e \in (Ids(j) \cup Ids(k)) /\ e \notin Shared(j, k)

\* C9: in every accepted triple each ingredient contributes an effect id,
\* shared with another member, that the shared ids of the other two
\* ingredients do not cover.
C9_NoDeadWeight ==
    (last.op = "filter_3" /\ last.kept) =>
        /\ Contributes(1, 2, 3)
        /\ Contributes(2, 3, 1)
        /\ Contributes(3, 1, 2)

\* C30: in a triple where exactly two of the three pairs share an effect
\* id, the shared id sets of the two edges are disjoint, and the triple is
\* accepted: a rejected triple with at least two edges has three edges.
C30_TwoEdgesAlwaysAccepted ==
    last.op = "filter_3" =>
        /\ Cardinality(Edges) = 2 =>
              /\ \A e, f \in Edges :
                    e # f => Shared(e[1], e[2]) \cap Shared(f[1], f[2]) = {}
              /\ last.kept
        /\ (~last.kept /\ Cardinality(Edges) >= 2) => Cardinality(Edges) = 3

\* an accepted triple whose first ingredient shares ids with both others,
\* more than one id with one of them, while the others share none
C30_Witness ==
    /\ last.op = "filter_3"
    /\ last.kept
    /\ Edges = {<<1, 2>>, <<3, 1>>}
    /\ Cardinality(Shared(1, 2)) >= 2

----------------------------------------------------------------------------
(* The 2-ingredient filter over every pair of ingredients (SpecPairs) *)

\* effect ids 1..MaxPairEffectId of the ingredients of a pair
MaxPairEffectId == 2

\* an ingredient effect: an effect id with a magnitude and a duration
PairEffects ==
    [global_form_id : {GlobalFormId(0, e) : e \in 1..MaxPairEffectId},
     magnitude : {1, 2}, duration : {0, 10}]

\* the effects Vecs: at most one effect per effect id, sorted by id
PairEffectLists ==
    {[j \in 1..Cardinality(S) |->
         CHOOSE x \in S : x.global_form_id.id =
             sorted_set({y.global_form_id.id : y \in S})[j]] :
     S \in {T \in SUBSET PairEffects :
               \A x, y \in T : x.global_form_id = y.global_form_id => x = y}}

InitPairs ==
    /\ \E la, lb \in PairEffectLists :
          combo = <<[name |-> 1, effects |-> la], [name |-> 2, effects |-> lb]>>
    /\ cache = <<>>
    /\ pc = "combo"
    /\ potions = <<>>
    /\ last = NoCall
    /\ load_order = LoadOrder_new(<<>>)
    /\ plugin_name = <<>>
    /\ masters = <<>>
    /\ parsed = {}
    /\ errors = 0
    /\ ingredients = <<>>
    /\ magic_effects = <<>>
    /\ snapshot = None
    /\ effect = None

\* the filter of build_potions_2 on the combination
FilterCombo2 ==
    /\ pc = "combo"
    /\ Len(combo) = 2
    /\ last' = [op |-> "filter_2", kept |-> combo_2_is_valid(combo[1], combo[2])]
    /\ pc' = "filtered"
    /\ UNCHANGED <<effect, snapshot, cache, load_order, plugin_name, masters, parsed, errors,
                   ingredients, magic_effects, combo, potions>>

NextPairs == FilterCombo2

SpecPairs == InitPairs /\ [][NextPairs]_vars

\* C10: a pair is kept in the 2-ingredient list iff the sets of effect ids
\* of its two ingredients intersect, whatever the magnitude and duration of
\* the effect in each ingredient.
C10_PairValidity ==
    last.op = "filter_2" => (last.kept <=> Shared(1, 2) # {})

\* what the code establishes: a pair is kept iff some effect of one equals,
\* field by field, an effect of the other
C10_PairKeptOnEqualEffects ==
    last.op = "filter_2" =>
        (last.kept <=> Range(combo[1].effects) \cap Range(combo[2].effects) # {})

----------------------------------------------------------------------------
(* PotionEffect and Potion::from_ingredients *)

MIN_INGREDIENTS == 2

MAX_INGREDIENTS == 3

EFFECT_POWER_FACTOR == 6

\* the MagicEffect flag bits the resolution of an effect reads
FlagNoDuration == 512

FlagNoMagnitude == 1024

FlagPowerAffectsMagnitude == 2097152

FlagPowerAffectsDuration == 4194304

\* flags & bit != 0
has_flag(flags, bit) == (flags \div bit) % 2 = 1

\* x.powf(1.1) in f32 for x = tenths / 10, in thousandths (rounded down)
powf_1_1(tenths) ==
    CASE tenths = 5 -> 466
      [] tenths = 10 -> 1000
      [] tenths = 15 -> 1562
      [] tenths = 20 -> 2143
      [] tenths = 25 -> 2739
      [] tenths = 30 -> 3348
      [] tenths = 40 -> 4594
      [] tenths = 45 -> 5230
      [] tenths = 50 -> 5873
      [] tenths = 60 -> 7177
      [] tenths = 90 -> 11211
      [] tenths = 100 -> 12589
      [] tenths = 120 -> 15385
      [] tenths = 150 -> 19665
      [] tenths = 180 -> 24032
      [] tenths = 200 -> 26985
      [] tenths = 240 -> 32978
      [] tenths = 270 -> 37540
      [] tenths = 300 -> 42153
      [] tenths = 360 -> 51514
      [] tenths = 540 -> 80469
      [] tenths = 600 -> 90357
      [] tenths = 720 -> 110424
      [] tenths = 900 -> 141145
      [] tenths = 1080 -> 172490
      [] tenths = 1800 -> 302551
      [] tenths = 3600 -> 648534

\* an f32 magnitude is held as a number of halves (3 is 1.5)
from_ingredient_effect(igef, mgefs) ==
    [ magic_effect   |-> mgefs[igef.global_form_id],
      base_magnitude |-> igef.magnitude,
      base_duration  |-> igef.duration ]

\* get_magnitude that does not read the "no magnitude" flag
get_magnitude_unflagged(potef) ==
    LET magnitude_factor ==
            IF has_flag(potef.magic_effect.flags, FlagPowerAffectsMagnitude)
            THEN EFFECT_POWER_FACTOR ELSE 1
    IN  (potef.base_magnitude * magnitude_factor + 1) \div 2

\* f32::round(magnitude * magnitude_factor) as u32
get_magnitude(potef) ==
    LET magnitude == IF has_flag(potef.magic_effect.flags, FlagNoMagnitude)
                     THEN 0 ELSE potef.base_magnitude
        magnitude_factor ==
            IF has_flag(potef.magic_effect.flags, FlagPowerAffectsMagnitude)
            THEN EFFECT_POWER_FACTOR ELSE 1
    IN  (magnitude * magnitude_factor + 1) \div 2

\* f32::round(duration * duration_factor) as u32
get_duration(potef) ==
    LET duration == IF has_flag(potef.magic_effect.flags, FlagNoDuration)
                    THEN 0 ELSE potef.base_duration
        duration_factor ==
            IF has_flag(potef.magic_effect.flags, FlagPowerAffectsDuration)
            THEN EFFECT_POWER_FACTOR ELSE 1
    IN  duration * duration_factor

\* get_gold_value that takes a duration of 0 as it is
get_gold_value_zero_duration(potef) ==
    LET magnitude_factor == Max({get_magnitude(potef), 1})
        duration == get_duration(potef)
    IN  IF duration = 0 THEN 0
        ELSE (potef.magic_effect.base_cost
                 * powf_1_1(magnitude_factor * duration)) \div 1000

\* (base_cost * (magnitude_factor * duration_factor).powf(1.1)) as u32
get_gold_value(potef) ==
    LET magnitude_factor == Max({get_magnitude(potef), 1})
        duration == get_duration(potef)
        duration_tenths == IF duration = 0 THEN 10 ELSE duration
    IN  (potef.magic_effect.base_cost
            * powf_1_1(magnitude_factor * duration_tenths)) \div 1000

\* first_duplicate that only sees an ingredient repeated right after itself
first_duplicate_adjacent(ings) ==
    LET D == {i \in 2..Len(ings) :
                 ings[i - 1].global_form_id = ings[i].global_form_id}
    IN  IF D = {} THEN None ELSE Some(ings[Min(D)])

\* ingredients.iter().duplicates().next(): the first ingredient that equals
\* an earlier one (Ingredient's PartialEq: mod name and id)
first_duplicate(ings) ==
    LET D == {i \in 1..Len(ings) :
                 \E j \in 1..(i - 1) :
                     ings[j].global_form_id = ings[i].global_form_id}
    IN  IF D = {} THEN None ELSE Some(ings[Min(D)])

\* ig.effects.iter().duplicates_by(|igef| igef.get_global_form_id()).count() > 0
has_duplicate_effects(ig) ==
    \E i, j \in 1..Len(ig.effects) :
        i < j /\ ig.effects[i].global_form_id = ig.effects[j].global_form_id

\* ingredients.iter().find(..): the first ingredient with duplicate effects
find_ing_with_dup_effects(ings) ==
    LET D == {i \in 1..Len(ings) : has_duplicate_effects(ings[i])}
    IN  IF D = {} THEN None ELSE Some(ings[Min(D)])

\* ingredients.iter().flat_map(|ig| ig.effects.iter())
RECURSIVE flat_map_effects(_)
flat_map_effects(ings) ==
    IF ings = <<>> THEN <<>>
    ELSE ings[1].effects \o flat_map_effects(Tail(ings))

\* sorted_by_key(|igef| igef.get_global_form_id()): a stable sort
RECURSIVE sorted_by_key_form_id(_)
sorted_by_key_form_id(effs) ==
    IF effs = <<>> THEN <<>>
    ELSE LET n == Len(effs)
             x == effs[n]
             before == sorted_by_key_form_id(SubSeq(effs, 1, n - 1))
             k == Cardinality({i \in 1..Len(before) :
                     ~form_id_less(x.global_form_id, before[i].global_form_id)})
         IN  SubSeq(before, 1, k) \o <<x>> \o SubSeq(before, k + 1, Len(before))

\* counts_by(|igef| igef.get_global_form_id())
counts_by_form_id(effs) ==
    [k \in {effs[i].global_form_id : i \in 1..Len(effs)} |->
        Cardinality({i \in 1..Len(effs) : effs[i].global_form_id = k})]

\* coalesce that keeps the later of two equally valuable effects
RECURSIVE coalesce_last_wins(_)
coalesce_last_wins(potefs) ==
    IF Len(potefs) < 2 THEN potefs
    ELSE LET potef1 == potefs[1]
             potef2 == potefs[2]
         IN  IF potef1.magic_effect.global_form_id = potef2.magic_effect.global_form_id
             THEN coalesce_last_wins(
                      << IF get_gold_value(potef1) > get_gold_value(potef2)
                         THEN potef1 ELSE potef2 >> \o SubSeq(potefs, 3, Len(potefs)))
             ELSE <<potef1>> \o coalesce_last_wins(Tail(potefs))

\* coalesce: of neighbours with the same effect id the most valuable stays
RECURSIVE coalesce(_)
coalesce(potefs) ==
    IF Len(potefs) < 2 THEN potefs
    ELSE LET potef1 == potefs[1]
             potef2 == potefs[2]
         IN  IF potef1.magic_effect.global_form_id = potef2.magic_effect.global_form_id
             THEN coalesce(
                      << IF get_gold_value(potef1) >= get_gold_value(potef2)
                         THEN potef1 ELSE potef2 >> \o SubSeq(potefs, 3, Len(potefs)))
             ELSE <<potef1>> \o coalesce(Tail(potefs))

\* sorted_by gold value without the reverse(): smallest first
RECURSIVE sorted_by_gold_value_ascending(_)
sorted_by_gold_value_ascending(potefs) ==
    IF potefs = <<>> THEN <<>>
    ELSE LET n == Len(potefs)
             x == potefs[n]
             before == sorted_by_gold_value_ascending(SubSeq(potefs, 1, n - 1))
             k == Cardinality({i \in 1..Len(before) :
                     get_gold_value(before[i]) <= get_gold_value(x)})
         IN  SubSeq(before, 1, k) \o <<x>> \o SubSeq(before, k + 1, Len(before))

\* sorted_by gold value, largest first: a stable sort
RECURSIVE sorted_by_gold_value(_)
sorted_by_gold_value(potefs) ==
    IF potefs = <<>> THEN <<>>
    ELSE LET n == Len(potefs)
             x == potefs[n]
             before == sorted_by_gold_value(SubSeq(potefs, 1, n - 1))
             k == Cardinality({i \in 1..Len(before) :
                     get_gold_value(before[i]) >= get_gold_value(x)})
         IN  SubSeq(before, 1, k) \o <<x>> \o SubSeq(before, k + 1, Len(before))

\* the active effects of the pooled effects, strongest first
active_effects(ingredients_effects, mgefs) ==
    LET ingredients_effects_counts == counts_by_form_id(ingredients_effects)
        active == SelectSeq(ingredients_effects,
                      LAMBDA igef : ingredients_effects_counts[igef.global_form_id] > 1)
    IN  sorted_by_gold_value(coalesce(
            [i \in 1..Len(active) |-> from_ingredient_effect(active[i], mgefs)]))

\* from_ingredients without the NoSharedEffects return
from_ingredients_no_shared_check(ings, mgefs) ==
    IF Len(ings) < MIN_INGREDIENTS
    THEN Err([kind |-> "NotEnoughIngredients"])
    ELSE IF first_duplicate(ings).some
    THEN Err([kind |-> "DuplicateIngredient", ing |-> first_duplicate(ings).val])
    ELSE IF find_ing_with_dup_effects(ings).some
    THEN Err([kind |-> "InvalidIngredient",
              ing |-> find_ing_with_dup_effects(ings).val])
    ELSE Ok([ingredients |-> ings,
             effects |-> active_effects(
                 sorted_by_key_form_id(flat_map_effects(ings)), mgefs)])

from_ingredients(ings, mgefs) ==
    IF Len(ings) < MIN_INGREDIENTS
    THEN Err([kind |-> "NotEnoughIngredients"])
    ELSE IF first_duplicate(ings).some
    THEN Err([kind |-> "DuplicateIngredient", ing |-> first_duplicate(ings).val])
    ELSE IF find_ing_with_dup_effects(ings).some
    THEN Err([kind |-> "InvalidIngredient",
              ing |-> find_ing_with_dup_effects(ings).val])
    ELSE LET ingredients_effects == sorted_by_key_form_id(flat_map_effects(ings))
             ingredients_effects_counts == counts_by_form_id(ingredients_effects)
         IN  IF \A k \in DOMAIN ingredients_effects_counts :
                    ingredients_effects_counts[k] < 2
             THEN Err([kind |-> "NoSharedEffects"])
             ELSE Ok([ingredients |-> ings,
                      effects |-> active_effects(ingredients_effects, mgefs)])

\* self.effects.first().unwrap()
get_primary_effect(potion) ==
    IF potion.effects = <<>> THEN None ELSE Some(potion.effects[1])

\* Potion::get_potion_type; "panic" when there is no primary effect
get_potion_type(potion) ==
    LET primary == get_primary_effect(potion)
    IN  IF ~primary.some THEN "panic"
        ELSE IF primary.val.magic_effect.is_hostile THEN "Poison" ELSE "Potion"

----------------------------------------------------------------------------
(* Potion::from_ingredients over lists of ingredients (SpecPotion) *)

\* effect ids 1..MaxEffectKinds of the data the potions are made from
MaxEffectKinds == 2

PotionEffectId(e) == GlobalFormId(0, e)

\* the magic effects of the data: flags, base cost and hostility vary
PotionMagicEffect(e) ==
    [ global_form_id |-> PotionEffectId(e),
      editor_id      |-> <<"MGEF", e>>,
      flags          |-> CASE e % 3 = 1 -> 0
                           [] e % 3 = 2 -> FlagPowerAffectsMagnitude
                           [] OTHER     -> FlagNoMagnitude + FlagPowerAffectsDuration,
      base_cost      |-> IF e % 2 = 1 THEN 10 ELSE 1,
      is_hostile     |-> e % 2 = 0 ]

PotionMagicEffects ==
    [k \in {PotionEffectId(e) : e \in 1..MaxEffectKinds} |-> PotionMagicEffect(k.id)]

\* the strengths an effect comes in: magnitude 1.0 or 1.5 over 10 seconds,
\* and for the first effect also magnitude 1.0 with no duration
PotionIngredientEffects(e) ==
    {[global_form_id |-> PotionEffectId(e), magnitude |-> 2, duration |-> 10],
     [global_form_id |-> PotionEffectId(e), magnitude |-> 3, duration |-> 10]}
    \cup (IF e = 1
          THEN {[global_form_id |-> PotionEffectId(e), magnitude |-> 2, duration |-> 0]}
          ELSE {})

\* the effects Vecs: one effect per id of a set of ids, sorted by id, and
\* the malformed ones that hold the same effect twice
PotionEffectLists ==
    UNION {{l \in [1..Cardinality(E) -> UNION {PotionIngredientEffects(e) : e \in E}] :
               \A j \in 1..Cardinality(E) :
                   l[j].global_form_id.id = sorted_set(E)[j]} :
           E \in SUBSET (1..MaxEffectKinds)}
    \cup {<<x, x>> : x \in {[global_form_id |-> PotionEffectId(e),
                             magnitude |-> 2, duration |-> 10] : e \in 1..MaxEffectKinds}}

\* which ingredient stands at each place of the list handed to
\* from_ingredients: none, one, two or three, with and without repeats
ComboShapes ==
    {<<>>, <<1>>, <<1, 2>>, <<1, 1>>, <<1, 2, 3>>,
     <<1, 1, 2>>, <<1, 2, 1>>, <<1, 2, 2>>, <<1, 1, 1>>}

InitPotion ==
    /\ \E shape \in ComboShapes :
          \E content \in [Range(shape) -> PotionEffectLists] :
              combo = [i \in 1..Len(shape) |->
                          Ingredient(GlobalFormId(0, shape[i]), content[shape[i]])]
    /\ magic_effects = PotionMagicEffects
    /\ cache = <<>>
    /\ pc = "combo"
    /\ potions = <<>>
    /\ last = NoCall
    /\ load_order = LoadOrder_new(<<>>)
    /\ plugin_name = <<>>
    /\ masters = <<>>
    /\ parsed = {}
    /\ errors = 0
    /\ ingredients = <<>>
    /\ snapshot = None
    /\ effect = None

FromIngredients ==
    /\ pc = "combo"
    /\ last' = [op |-> "from_ingredients",
                result |-> from_ingredients(combo, magic_effects)]
    /\ pc' = "crafted"
    /\ UNCHANGED <<effect, snapshot, cache, load_order, plugin_name, masters, parsed, errors,
                   ingredients, magic_effects, combo, potions>>

\* get_potion_type of the Potion from_ingredients returned
GetPotionType ==
    /\ pc = "crafted"
    /\ last.op = "from_ingredients"
    /\ last.result.ok
    /\ last' = [op |-> "get_potion_type", potion |-> last.result.val,
                result |-> get_potion_type(last.result.val)]
    /\ pc' = "typed"
    /\ UNCHANGED <<effect, snapshot, cache, load_order, plugin_name, masters, parsed,
                   errors, ingredients, magic_effects, combo, potions>>

NextPotion == FromIngredients \/ GetPotionType

SpecPotion == InitPotion /\ [][NextPotion]_vars

\* the ingredients of the list that have an effect with the id
IngredientsWith(id) ==
    {i \in 1..Len(combo) :
        \E j \in 1..Len(combo[i].effects) : combo[i].effects[j].global_form_id = id}

\* the effect ids that occur in at least two ingredients of the list
SharedIds ==
    {id \in UNION {Ids(i) : i \in 1..Len(combo)} :
        Cardinality(IngredientsWith(id)) >= 2}

\* two or three distinct ingredients, none with the same effect id twice
WellFormedCombo ==
    /\ Len(combo) \in MIN_INGREDIENTS..MAX_INGREDIENTS
    /\ \A i, j \in 1..Len(combo) :
          i # j => combo[i].global_form_id # combo[j].global_form_id
    /\ \A i \in 1..Len(combo) : ~has_duplicate_effects(combo[i])

\* C11: for 2 or 3 distinct ingredients without duplicate effects,
\* from_ingredients returns NoSharedEffects iff no effect id occurs in at
\* least two of them, and otherwise a Potion with at least one effect.
C11_NoSharedEffects ==
    (last.op = "from_ingredients" /\ WellFormedCombo) =>
        IF SharedIds = {}
        THEN last.result = Err([kind |-> "NoSharedEffects"])
        ELSE last.result.ok /\ Len(last.result.val.effects) >= 1

\* ingredients with effects, no two of them with a common effect
C11_Witness ==
    /\ last.op = "from_ingredients"
    /\ WellFormedCombo
    /\ \A i \in 1..Len(combo) : combo[i].effects # <<>>
    /\ last.result = Err([kind |-> "NoSharedEffects"])

\* C12: fewer than 2 ingredients give NotEnoughIngredients; otherwise a
\* repeated ingredient gives DuplicateIngredient with a repeated ingredient;
\* otherwise an ingredient with the same effect id twice gives
\* InvalidIngredient with such an ingredient.
C12_MalformedInput ==
    last.op = "from_ingredients" =>
        LET Repeated == {i \in 1..Len(combo) :
                            \E j \in 1..Len(combo) :
                                i # j /\ combo[i].global_form_id = combo[j].global_form_id}
            Invalid == {i \in 1..Len(combo) : has_duplicate_effects(combo[i])}
        IN  IF Len(combo) < 2
            THEN last.result = Err([kind |-> "NotEnoughIngredients"])
            ELSE IF Repeated # {}
            THEN /\ ~last.result.ok
                 /\ last.result.err.kind = "DuplicateIngredient"
                 /\ \E i \in Repeated : last.result.err.ing = combo[i]
            ELSE IF Invalid # {}
            THEN /\ ~last.result.ok
                 /\ last.result.err.kind = "InvalidIngredient"
                 /\ \E i \in Invalid : last.result.err.ing = combo[i]
            ELSE last.result.ok \/ last.result.err.kind = "NoSharedEffects"

\* an ingredient repeated after another one, itself malformed
C12_Witness ==
    /\ last.op = "from_ingredients"
    /\ Len(combo) = 3
    /\ combo[1].global_form_id = combo[3].global_form_id
    /\ combo[1].global_form_id # combo[2].global_form_id
    /\ has_duplicate_effects(combo[2])
    /\ last.result = Err([kind |-> "DuplicateIngredient", ing |-> combo[1]])

\* the effect with the id in the i-th ingredient, as a potion effect
Instance(i, id) ==
    LET j == CHOOSE j \in 1..Len(combo[i].effects) :
                 combo[i].effects[j].global_form_id = id
    IN  from_ingredient_effect(combo[i].effects[j], magic_effects)

\* the first of the most valuable instances of the effect id
Strongest(id) ==
    LET best == Max({get_gold_value(Instance(i, id)) : i \in IngredientsWith(id)})
    IN  Instance(Min({i \in IngredientsWith(id) :
                         get_gold_value(Instance(i, id)) = best}), id)

\* C13: the effects of a returned Potion are the effect ids that occur in
\* at least two ingredients, each once, and for each id the instance of
\* highest gold value, the first encountered of them on equal value.
C13_ActiveEffects ==
    (last.op = "from_ingredients" /\ last.result.ok) =>
        LET effects == last.result.val.effects
        IN  /\ {effects[i].magic_effect.global_form_id : i \in 1..Len(effects)}
                  = SharedIds
            /\ Len(effects) = Cardinality(SharedIds)
            /\ \A i \in 1..Len(effects) :
                  effects[i] = Strongest(effects[i].magic_effect.global_form_id)

\* a potion of two effects; one of them comes in three ingredients, at the
\* same value but with different durations in the first two
C13_Witness ==
    /\ last.op = "from_ingredients"
    /\ last.result.ok
    /\ Len(last.result.val.effects) = 2
    /\ \E id \in SharedIds :
          /\ IngredientsWith(id) = {1, 2, 3}
          /\ get_gold_value(Instance(1, id)) = get_gold_value(Instance(2, id))
          /\ Instance(1, id) # Instance(2, id)
          /\ get_gold_value(Instance(3, id)) <= get_gold_value(Instance(1, id))

\* C25: the effects of a Potion are ordered by gold value, non-increasing,
\* so that effects[0], the primary effect, has the greatest gold value of
\* the active effects; the potion type is Poison iff the MagicEffect of the
\* primary effect is hostile, and Potion otherwise.
C25_PrimaryEffect ==
    last.op = "get_potion_type" =>
        LET effects == last.potion.effects
        IN  /\ effects # <<>>
            /\ \A i \in 1..(Len(effects) - 1) :
                  get_gold_value(effects[i]) >= get_gold_value(effects[i + 1])
            /\ get_gold_value(effects[1]) =
                   Max({get_gold_value(Strongest(id)) : id \in SharedIds})
            /\ last.result =
                   IF magic_effects[effects[1].magic_effect.global_form_id].is_hostile
                   THEN "Poison" ELSE "Potion"

\* a poison: the hostile effect is worth more than the other effect, whose
\* id is the lower one
C25_Witness ==
    /\ last.op = "get_potion_type"
    /\ Len(last.potion.effects) = 2
    /\ get_gold_value(last.potion.effects[1]) > get_gold_value(last.potion.effects[2])
    /\ form_id_less(last.potion.effects[2].magic_effect.global_form_id,
                    last.potion.effects[1].magic_effect.global_form_id)
    /\ last.result = "Poison"

----------------------------------------------------------------------------
(* Potion::from_ingredients over ingredients with many effects (SpecCap) *)

\* effect ids 1..MaxCapEffects: Ingredient::parse pushes one effect per
\* EFID/EFIT pair of the record, however many there are
MaxCapEffects == 7

CapMagicEffects ==
    [k \in {PotionEffectId(e) : e \in 1..MaxCapEffects} |-> PotionMagicEffect(k.id)]

\* the effects Vec with the effect ids from..to, sorted by id
CapEffects(from, to, magnitude) ==
    [j \in 1..(to - from + 1) |->
        [global_form_id |-> PotionEffectId(from + j - 1),
         magnitude |-> magnitude, duration |-> 10]]

\* the runs of effect ids an ingredient holds (the empty run included)
CapRuns ==
    {<<from, to>> \in (1..MaxCapEffects) \X (0..MaxCapEffects) :
        to >= from \/ (from = 1 /\ to = 0)}

\* two or three different ingredients; the second is the stronger one
InitCap ==
    /\ \E n \in MIN_INGREDIENTS..MAX_INGREDIENTS :
          \E runs \in [1..n -> CapRuns] :
              combo = [i \in 1..n |->
                          Ingredient(GlobalFormId(0, i),
                                     CapEffects(runs[i][1], runs[i][2],
                                                IF i = 2 THEN 3 ELSE 2))]
    /\ magic_effects = CapMagicEffects
    /\ cache = <<>>
    /\ pc = "combo"
    /\ potions = <<>>
    /\ last = NoCall
    /\ load_order = LoadOrder_new(<<>>)
    /\ plugin_name = <<>>
    /\ masters = <<>>
    /\ parsed = {}
    /\ errors = 0
    /\ ingredients = <<>>
    /\ snapshot = None
    /\ effect = None

NextCap == FromIngredients

SpecCap == InitCap /\ [][NextCap]_vars

\* C23: every Potion from_ingredients returns has at most 6 effects,
\* whatever the number of effects of its 2 or 3 ingredients.
C23_AtMostSixEffects ==
    (last.op = "from_ingredients" /\ last.result.ok) =>
        Len(last.result.val.effects) <= 6

\* what the code returns: one effect for every effect id that at least two
\* of the ingredients hold, however many there are
C23_EveryActiveEffectKept ==
    (last.op = "from_ingredients" /\ last.result.ok) =>
        /\ Len(last.result.val.effects) = Cardinality(SharedIds)
        /\ {last.result.val.effects[i].magic_effect.global_form_id :
               i \in 1..Len(last.result.val.effects)} = SharedIds

\* what does hold: at most 6 effects when no ingredient has more than 4
C23_AtMostSixOfFourEach ==
    /\ last.op = "from_ingredients"
    /\ last.result.ok
    /\ \A i \in 1..Len(combo) : Len(combo[i].effects) <= 4
    => Len(last.result.val.effects) <= 6

----------------------------------------------------------------------------
(* PotionEffect: get_magnitude, get_duration, get_gold_value (SpecEffect) *)

\* the flags of a MagicEffect: any of the four bits the resolution reads
EffectFlags ==
    {a + b + c + d : a \in {0, FlagNoDuration}, b \in {0, FlagNoMagnitude},
                     c \in {0, FlagPowerAffectsMagnitude},
                     d \in {0, FlagPowerAffectsDuration}}

\* raw magnitudes 0.0, 0.5, 1.0, 1.5 and 5.0, as halves
EffectMagnitudes == {0, 1, 2, 3, 10}

\* raw durations, in seconds
EffectDurations == {0, 5, 10, 20}

EffectBaseCosts == {1, 2, 10}

\* OnceCell::get_or_init
get_or_init(cell, value) == IF cell.some THEN cell ELSE Some(value)

\* PotionEffect::from_ingredient_effect: the three OnceCells start empty
InitEffect ==
    /\ \E flags \in EffectFlags, magnitude \in EffectMagnitudes,
          duration \in EffectDurations, base_cost \in EffectBaseCosts :
          LET mgef == [ global_form_id |-> PotionEffectId(1),
                        editor_id |-> <<"MGEF", 1>>, flags |-> flags,
                        base_cost |-> base_cost, is_hostile |-> FALSE ]
              igef == [ global_form_id |-> PotionEffectId(1),
                        magnitude |-> magnitude, duration |-> duration ]
          IN  /\ magic_effects = [k \in {PotionEffectId(1)} |-> mgef]
              /\ effect = [ potef |-> from_ingredient_effect(
                                          igef, [k \in {PotionEffectId(1)} |-> mgef]),
                            magnitude |-> None, duration |-> None,
                            gold_value |-> None ]
    /\ cache = <<>>
    /\ pc = "effect"
    /\ potions = <<>>
    /\ combo = <<>>
    /\ last = NoCall
    /\ load_order = LoadOrder_new(<<>>)
    /\ plugin_name = <<>>
    /\ masters = <<>>
    /\ parsed = {}
    /\ errors = 0
    /\ ingredients = <<>>
    /\ snapshot = None

GetMagnitude ==
    /\ pc = "effect"
    /\ effect' = [effect EXCEPT
                     !.magnitude = get_or_init(@, get_magnitude(effect.potef))]
    /\ last' = [op |-> "get_magnitude", result |-> effect'.magnitude.val]
    /\ UNCHANGED <<snapshot, cache, load_order, pc, plugin_name, masters, parsed,
                   errors, ingredients, magic_effects, combo, potions>>

GetDuration ==
    /\ pc = "effect"
    /\ effect' = [effect EXCEPT
                     !.duration = get_or_init(@, get_duration(effect.potef))]
    /\ last' = [op |-> "get_duration", result |-> effect'.duration.val]
    /\ UNCHANGED <<snapshot, cache, load_order, pc, plugin_name, masters, parsed,
                   errors, ingredients, magic_effects, combo, potions>>

\* get_gold_value calls get_magnitude and get_duration, which fill their
\* cells
GetGoldValue ==
    /\ pc = "effect"
    /\ effect' = [effect EXCEPT
                     !.magnitude = get_or_init(@, get_magnitude(effect.potef)),
                     !.duration = get_or_init(@, get_duration(effect.potef)),
                     !.gold_value = get_or_init(@, get_gold_value(effect.potef))]
    /\ last' = [op |-> "get_gold_value", result |-> effect'.gold_value.val]
    /\ UNCHANGED <<snapshot, cache, load_order, pc, plugin_name, masters, parsed,
                   errors, ingredients, magic_effects, combo, potions>>

NextEffect == GetMagnitude \/ GetDuration \/ GetGoldValue

SpecEffect == InitEffect /\ [][NextEffect]_vars

\* x^1.1 for x = tenths / 10, in thousandths (rounded down), in exact
\* arithmetic
pow_1_1(tenths) ==
    CASE tenths = 5 -> 466
      [] tenths = 10 -> 1000
      [] tenths = 15 -> 1562
      [] tenths = 20 -> 2143
      [] tenths = 25 -> 2739
      [] tenths = 30 -> 3348
      [] tenths = 40 -> 4594
      [] tenths = 45 -> 5230
      [] tenths = 50 -> 5873
      [] tenths = 60 -> 7177
      [] tenths = 90 -> 11211
      [] tenths = 100 -> 12589
      [] tenths = 120 -> 15385
      [] tenths = 150 -> 19665
      [] tenths = 180 -> 24032
      [] tenths = 200 -> 26985
      [] tenths = 240 -> 32978
      [] tenths = 270 -> 37540
      [] tenths = 300 -> 42153
      [] tenths = 360 -> 51514
      [] tenths = 540 -> 80469
      [] tenths = 600 -> 90357
      [] tenths = 720 -> 110424
      [] tenths = 900 -> 141145
      [] tenths = 1080 -> 172490
      [] tenths = 1800 -> 302551
      [] tenths = 3600 -> 648534

\* trunc(base_cost * (magnitude * (d / 10))^1.1) for resolved values
GoldValueFormula(base_cost, magnitude, duration) ==
    LET d == IF duration = 0 THEN 10 ELSE duration
    IN  (base_cost * pow_1_1(Max({magnitude, 1}) * d)) \div 1000

\* C24: the gold value of an effect is
\* trunc(base_cost * (max(magnitude, 1) * (d / 10))^1.1) with d = 10 when the
\* resolved duration is 0 and d = duration otherwise; base cost 10, magnitude
\* 5, duration 20 and no flags give 125; a duration of 0 scores as one of 10.
C24_GoldValue ==
    last.op = "get_gold_value" =>
        LET potef == effect.potef
        IN  /\ last.result = GoldValueFormula(potef.magic_effect.base_cost,
                                              effect.magnitude.val,
                                              effect.duration.val)
            /\ effect.duration.val = 0 =>
                   last.result = GoldValueFormula(potef.magic_effect.base_cost,
                                                  effect.magnitude.val, 10)
            /\ ( /\ potef.magic_effect.base_cost = 10
                 /\ potef.magic_effect.flags = 0
                 /\ potef.base_magnitude = 10
                 /\ potef.base_duration = 20 ) => last.result = 125

\* the effect of base cost 10, magnitude 5 and duration 20 was valued
C24_Witness ==
    /\ last.op = "get_gold_value"
    /\ effect.potef.magic_effect.base_cost = 10
    /\ effect.potef.magic_effect.flags = 0
    /\ effect.potef.base_magnitude = 10
    /\ effect.potef.base_duration = 20
    /\ last.result = 125

\* C26: the resolved magnitude is 0 under the no-magnitude flag, else the raw
\* magnitude times 6 under the power-affects-magnitude flag and times 1
\* otherwise, rounded to a nearest integer; the resolved duration is 0 under
\* the no-duration flag, else the raw duration times 6 under the
\* power-affects-duration flag and times 1 otherwise.
C26_ResolvedValues ==
    LET flags == effect.potef.magic_effect.flags
    IN  /\ last.op = "get_magnitude" =>
              LET halves == IF has_flag(flags, FlagNoMagnitude) THEN 0
                            ELSE effect.potef.base_magnitude
                                     * (IF has_flag(flags, FlagPowerAffectsMagnitude)
                                        THEN 6 ELSE 1)
              IN  /\ 2 * last.result - halves <= 1
                  /\ halves - 2 * last.result <= 1
        /\ last.op = "get_duration" =>
              last.result = IF has_flag(flags, FlagNoDuration) THEN 0
                            ELSE effect.potef.base_duration
                                     * (IF has_flag(flags, FlagPowerAffectsDuration)
                                        THEN 6 ELSE 1)

\* the magnitude 1.5 of an effect with all four flags but "no magnitude"
\* resolved to 9
C26_Witness ==
    /\ last.op = "get_magnitude"
    /\ effect.potef.base_magnitude = 3
    /\ has_flag(effect.potef.magic_effect.flags, FlagPowerAffectsMagnitude)
    /\ has_flag(effect.potef.magic_effect.flags, FlagNoDuration)
    /\ ~has_flag(effect.potef.magic_effect.flags, FlagNoMagnitude)
    /\ last.result = 9

----------------------------------------------------------------------------
(* PotionsList: build_potions and get_potions *)

\* Potion::get_gold_value: the sum of the gold values of the effects
RECURSIVE sum_gold_values(_)
sum_gold_values(potefs) ==
    IF potefs = <<>> THEN 0
    ELSE get_gold_value(potefs[1]) + sum_gold_values(Tail(potefs))

potion_get_gold_value(potion) == sum_gold_values(potion.effects)

\* values().sorted_by_key(|ig| &ig.name): a stable sort of the values in
\* the order the map yields them
RECURSIVE sorted_by_key_name(_)
sorted_by_key_name(igs) ==
    IF igs = <<>> THEN <<>>
    ELSE LET n == Len(igs)
             x == igs[n]
             before == sorted_by_key_name(SubSeq(igs, 1, n - 1))
             k == Cardinality({i \in 1..Len(before) : before[i].name <= x.name})
         IN  SubSeq(before, 1, k) \o <<x>> \o SubSeq(before, k + 1, Len(before))

\* the place of a combination of positions in the lexicographic order
combination_code(t, n) ==
    IF Len(t) = 2 THEN t[1] * (n + 1) + t[2]
    ELSE (t[1] * (n + 1) + t[2]) * (n + 1) + t[3]

\* LargeCombinationIterator::new(&ingredients, k): the k-combinations of
\* the list, in lexicographic order of the positions
LargeCombinationIterator(igs, k) ==
    LET n == Len(igs)
        T == {t \in [1..k -> 1..n] : \A i \in 1..(k - 1) : t[i] < t[i + 1]}
        codes == sorted_set({combination_code(t, n) : t \in T})
    IN  [c \in 1..Len(codes) |->
            LET t == CHOOSE t \in T : combination_code(t, n) = codes[c]
            IN  [i \in 1..k |-> igs[t[i]]]]

\* a sort that leaves the potions as they are
par_sort_nothing(unsorted, sort_ties) == unsorted

\* par_sort_unstable_by gold value, largest first. The order of potions of
\* equal value is not specified: sort_ties says whether they stay in the
\* order of the input ("keep") or come out reversed ("reverse")
RECURSIVE par_sort_unstable_by(_, _)
par_sort_unstable_by(unsorted, sort_ties) ==
    IF unsorted = <<>> THEN <<>>
    ELSE LET n == Len(unsorted)
             x == unsorted[n]
             before == par_sort_unstable_by(SubSeq(unsorted, 1, n - 1), sort_ties)
             k == Cardinality({i \in 1..Len(before) :
                     \/ before[i].gold_value > x.gold_value
                     \/ sort_ties = "keep" /\ before[i].gold_value = x.gold_value})
         IN  SubSeq(before, 1, k) \o <<x>> \o SubSeq(before, k + 1, Len(before))

\* the valid combinations made into potions and sorted; a combination that
\* from_ingredients refuses makes expect() panic. gold_value is the value
\* the sort and the merge read from the potion
potions_of(valid_combos, mgefs, sort_ties) ==
    LET results == [i \in 1..Len(valid_combos) |->
                       from_ingredients(valid_combos[i], mgefs)]
    IN  IF \E i \in 1..Len(results) : ~results[i].ok
        THEN [panicked |-> TRUE, potions |-> <<>>]
        ELSE [panicked |-> FALSE,
              potions |-> par_sort_unstable_by(
                  [i \in 1..Len(results) |->
                      [ ingredients |-> results[i].val.ingredients,
                        effects     |-> results[i].val.effects,
                        gold_value  |-> potion_get_gold_value(results[i].val) ]],
                  sort_ties)]

\* the ingredient lists build_potions_2 and build_potions_3 can start from:
\* the values of the map, in any order the map may yield them, sorted by name
sorted_ingredients(ings) ==
    {sorted_by_key_name([i \in 1..Len(order) |-> ings[order[i]]]) :
        order \in IterationOrders(DOMAIN ings)}

\* build_potions_2 from the sorted ingredient list on
build_potions_2(ingredients_sorted, mgefs, sort_ties) ==
    LET combos_2 == LargeCombinationIterator(ingredients_sorted, 2)
        valid_combos_2 == SelectSeq(combos_2,
                              LAMBDA c : combo_2_is_valid(c[1], c[2]))
    IN  potions_of(valid_combos_2, mgefs, sort_ties)

\* build_potions_3 from the sorted ingredient list on
build_potions_3(ingredients_sorted, mgefs, sort_ties) ==
    LET combos_3 == LargeCombinationIterator(ingredients_sorted, 3)
        valid_combos_3 == SelectSeq(combos_3,
                              LAMBDA c : combo_3_is_valid(c[1], c[2], c[3]))
    IN  potions_of(valid_combos_3, mgefs, sort_ties)

\* merge_by that takes from the first list on equal values too
RECURSIVE merge_by_first_on_ties(_, _)
merge_by_first_on_ties(potions_3, potions_2) ==
    IF potions_3 = <<>> THEN potions_2
    ELSE IF potions_2 = <<>> THEN potions_3
    ELSE IF potions_3[1].gold_value >= potions_2[1].gold_value
    THEN <<potions_3[1]>> \o merge_by_first_on_ties(Tail(potions_3), potions_2)
    ELSE <<potions_2[1]>> \o merge_by_first_on_ties(potions_3, Tail(potions_2))

\* potions_3.iter().merge_by(potions_2.iter(), |a, b| a.gold_value > b.gold_value):
\* the head of the first list is taken when the closure says true
RECURSIVE merge_by(_, _)
merge_by(potions_3, potions_2) ==
    IF potions_3 = <<>> THEN potions_2
    ELSE IF potions_2 = <<>> THEN potions_3
    ELSE IF potions_3[1].gold_value > potions_2[1].gold_value
    THEN <<potions_3[1]>> \o merge_by(Tail(potions_3), potions_2)
    ELSE <<potions_2[1]>> \o merge_by(potions_3, Tail(potions_2))

get_potions(list) == merge_by(list.potions_3, list.potions_2)

----------------------------------------------------------------------------
(* build_potions and get_potions over a GameData, run twice (SpecList) *)

\* ingredients of the GameData the potions are listed from
MaxListIngredients == 3

\* the first effect at magnitude 1.0 or 1.5, the second at magnitude 1.0
ListEffects ==
    {[global_form_id |-> PotionEffectId(1), magnitude |-> 2, duration |-> 10],
     [global_form_id |-> PotionEffectId(1), magnitude |-> 3, duration |-> 10],
     [global_form_id |-> PotionEffectId(2), magnitude |-> 2, duration |-> 10]}

\* the effects Vecs: at most one effect per id, sorted by id
ListEffectLists ==
    {<<>>} \cup {<<x>> : x \in ListEffects}
    \cup {<<x, y>> : x \in {z \in ListEffects : z.global_form_id.id = 1},
                     y \in {z \in ListEffects : z.global_form_id.id = 2}}

\* the display names: all different, in the order of the ids or against it,
\* or the same name for the first two ingredients
ListNames ==
    {[i \in 1..MaxListIngredients |-> i],
     [i \in 1..MaxListIngredients |-> MaxListIngredients + 1 - i],
     [i \in 1..MaxListIngredients |-> IF i <= 2 THEN 1 ELSE i]}

NamedIngredient(form_id, name, effects) ==
    [ global_form_id |-> form_id,
      editor_id      |-> <<"INGR", form_id.id>>,
      name           |-> name,
      effects        |-> effects ]

\* PotionsList::new over a GameData whose references all resolve
InitList ==
    /\ \E names \in ListNames :
          \E content \in [1..MaxListIngredients -> ListEffectLists] :
              ingredients = [k \in {GlobalFormId(0, i) : i \in 1..MaxListIngredients} |->
                                NamedIngredient(k, names[k.id], content[k.id])]
    /\ magic_effects = PotionMagicEffects
    /\ \E sort_ties \in {"keep", "reverse"} :
          potions = [sort_ties |-> sort_ties, potions_2 |-> <<>>, potions_3 |-> <<>>]
    /\ cache = <<>>
    /\ pc = "new"
    /\ last = [op |-> "new", earlier |-> <<>>]
    /\ load_order = LoadOrder_new(<<>>)
    /\ plugin_name = <<>>
    /\ masters = <<>>
    /\ parsed = {}
    /\ errors = 0
    /\ combo = <<>>
    /\ snapshot = None
    /\ effect = None

\* build_potions, in a first execution and in a second one over the same
\* GameData; the ingredients map yields its values in some order
BuildPotions ==
    /\ pc \in {"new", "listed"}
    /\ \E igs \in sorted_ingredients(ingredients) :
          LET r_2 == build_potions_2(igs, magic_effects, potions.sort_ties)
              r_3 == build_potions_3(igs, magic_effects, potions.sort_ties)
          IN  IF r_2.panicked \/ r_3.panicked
              THEN pc' = "panicked" /\ UNCHANGED potions
              ELSE /\ pc' = IF pc = "new" THEN "built" ELSE "rebuilt"
                   /\ potions' = [potions EXCEPT !.potions_2 = r_2.potions,
                                                 !.potions_3 = r_3.potions]
    /\ last' = [op |-> "build_potions",
                earlier |-> IF pc = "new" THEN <<>> ELSE <<last.merged>>]
    /\ UNCHANGED <<effect, snapshot, cache, load_order, plugin_name, masters, parsed, errors,
                   ingredients, magic_effects, combo>>

GetPotions ==
    /\ pc \in {"built", "rebuilt"}
    /\ last' = [op |-> "get_potions", merged |-> get_potions(potions),
                earlier |-> last.earlier]
    /\ pc' = IF pc = "built" THEN "listed" ELSE "relisted"
    /\ UNCHANGED <<effect, snapshot, cache, load_order, plugin_name, masters, parsed, errors,
                   ingredients, magic_effects, combo, potions>>

NextList == BuildPotions \/ GetPotions

SpecList == InitList /\ [][NextList]_vars

NonIncreasing(ps) ==
    \A i \in 1..(Len(ps) - 1) :
        potion_get_gold_value(ps[i]) >= potion_get_gold_value(ps[i + 1])

\* the places of a potion in a list
Places(ps, potion) == {i \in 1..Len(ps) : ps[i] = potion}

TiedAcross ==
    {pq \in Range(potions.potions_3) \X Range(potions.potions_2) :
        potion_get_gold_value(pq[1]) = potion_get_gold_value(pq[2])}

\* C15 as stated: of a 3-ingredient and a 2-ingredient potion of equal
\* value, the 3-ingredient potion is yielded first.
C15_TiesFavorThree ==
    last.op = "get_potions" =>
        \A pq \in TiedAcross :
            Min(Places(last.merged, pq[1])) < Min(Places(last.merged, pq[2]))

\* C15: of a 3-ingredient and a 2-ingredient potion of equal value, the
\* 2-ingredient potion is yielded first: the 3-ingredient list only gives
\* its head when it is worth strictly more.
C15_TiesFavorTwo ==
    last.op = "get_potions" =>
        \A pq \in TiedAcross :
            Min(Places(last.merged, pq[2])) < Min(Places(last.merged, pq[1]))

\* a 3-ingredient potion and a 2-ingredient potion of equal value
C15_Witness ==
    /\ last.op = "get_potions"
    /\ TiedAcross # {}

\* the ingredients of the potions of a list, place by place
Combinations(ps) ==
    [i \in 1..Len(ps) |->
        {ps[i].ingredients[j].global_form_id : j \in 1..Len(ps[i].ingredients)}]

\* C19: two executions of build_potions and get_potions on the same
\* GameData yield the same ingredient combinations in the same places.
C19_SameSequence ==
    (last.op = "get_potions" /\ last.earlier # <<>>) =>
        Combinations(last.merged) = Combinations(last.earlier[1])

----------------------------------------------------------------------------
(* build_potions over a GameData that purge_invalid has cleaned (SpecBuild) *)

\* ingredients of the GameData before purge_invalid
MaxBuildIngredients == 3

\* an effect id no magic effect of the data has
BuildUnknownEffectId == PotionEffectId(MaxEffectKinds + 1)

BuildEffect(form_id) ==
    [global_form_id |-> form_id, magnitude |-> 2, duration |-> 10]

\* the effects Vecs the parser can produce (Ingredient::parse pushes every
\* EFID/EFIT pair and sorts by local id): none, one or two known effects,
\* the same effect twice, and effects whose id is unknown
BuildEffectLists ==
    { <<>>,
      <<BuildEffect(PotionEffectId(1))>>,
      <<BuildEffect(PotionEffectId(2))>>,
      <<BuildEffect(PotionEffectId(1)), BuildEffect(PotionEffectId(2))>>,
      <<BuildEffect(PotionEffectId(1)), BuildEffect(PotionEffectId(1))>>,
      <<BuildEffect(BuildUnknownEffectId)>>,
      <<BuildEffect(PotionEffectId(1)), BuildEffect(BuildUnknownEffectId)>> }

InitBuild ==
    /\ \E content \in [1..MaxBuildIngredients -> BuildEffectLists] :
          ingredients = [k \in {GlobalFormId(0, i) : i \in 1..MaxBuildIngredients} |->
                            NamedIngredient(k, k.id, content[k.id])]
    /\ magic_effects = PotionMagicEffects
    /\ \E sort_ties \in {"keep", "reverse"} :
          potions = [sort_ties |-> sort_ties, potions_2 |-> <<>>, potions_3 |-> <<>>]
    /\ cache = <<>>
    /\ pc = "built"
    /\ last = [op |-> "new"]
    /\ load_order = LoadOrder_new(<<>>)
    /\ plugin_name = <<>>
    /\ masters = <<>>
    /\ parsed = {}
    /\ errors = 0
    /\ combo = <<>>
    /\ snapshot = None
    /\ effect = None

\* PotionsList::new(&game_data).build_potions() after purge_invalid
BuildPurgedPotions ==
    /\ pc = "purged"
    /\ \E igs \in sorted_ingredients(ingredients) :
       \E r_2 \in {build_potions_2(igs, magic_effects, potions.sort_ties)} :
       \E r_3 \in {build_potions_3(igs, magic_effects, potions.sort_ties)} :
          IF r_2.panicked \/ r_3.panicked
          THEN pc' = "panicked" /\ UNCHANGED potions
          ELSE /\ pc' = "listed"
               /\ potions' = [potions EXCEPT !.potions_2 = r_2.potions,
                                             !.potions_3 = r_3.potions]
    /\ last' = [op |-> "build_potions", ingredients |-> ingredients]
    /\ UNCHANGED <<effect, snapshot, cache, load_order, plugin_name, masters, parsed,
                   errors, ingredients, magic_effects, combo>>

NextBuild == PurgeInvalid \/ BuildPurgedPotions

SpecBuild == InitBuild /\ [][NextBuild]_vars

\* C29: on a GameData that purge_invalid has been called on, every
\* combination of two or three ingredients that passes the filter of
\* build_potions is made into a Potion: build_potions never panics
C29_BuildNeverAborts ==
    last.op = "build_potions" => pc # "panicked"

\* some ingredient the build starts from holds one effect id twice
BuildHasDuplicateEffects ==
    \E k \in DOMAIN last.ingredients : has_duplicate_effects(last.ingredients[k])

\* C29, narrowed: when no ingredient left by purge_invalid holds the same
\* effect id twice, build_potions does not panic
C29_BuildNeverAbortsWithoutDuplicateEffects ==
    (last.op = "build_potions" /\ ~BuildHasDuplicateEffects) => pc # "panicked"

----------------------------------------------------------------------------
(* SharedEffectsCache and SharedEffectsCacheUnsync (SpecCache) *)

\* OrderedPair::new: the two elements in ascending order
OrderedPair_new(a, b) == IF a <= b THEN <<a, b>> ELSE <<b, a>>

\* the u32 form id of an ingredient: the id of the record in its plugin,
\* under the slot of the plugin among its own masters
get_form_id(ig) == ig.form_id

\* cache.get_with(key, || a.shares_effects_with(b)) and
\* cache.entry(key).or_insert_with(|| a.shares_effects_with(b)): the stored
\* value if the key is there, else the computed value, which is stored
cached_lookup(entries, a, b) ==
    LET key == OrderedPair_new(get_form_id(a), get_form_id(b))
    IN  IF key \in DOMAIN entries
        THEN [result |-> entries[key], entries |-> entries]
        ELSE [result |-> shares_effects_with(a, b),
              entries |-> [k \in DOMAIN entries \cup {key} |->
                              IF k = key THEN shares_effects_with(a, b)
                              ELSE entries[k]]]

\* SharedEffectsCache::cached_shares_effects_with
SharedEffectsCache_cached_shares_effects_with(entries, a, b) ==
    cached_lookup(entries, a, b)

\* SharedEffectsCacheUnsync::cached_shares_effects_with
SharedEffectsCacheUnsync_cached_shares_effects_with(entries, a, b) ==
    cached_lookup(entries, a, b)

\* cached lookups made on one cache
MaxLookups == 3

\* the ingredients of the data: records 1 and 2 of the first plugin and
\* record 1 of the second plugin
CacheIngredientIds == {GlobalFormId(0, 1), GlobalFormId(0, 2), GlobalFormId(1, 1)}

\* an ingredient has the first effect or the second
CacheEffectLists ==
    {<<[global_form_id |-> PotionEffectId(e), magnitude |-> 2, duration |-> 10]>> :
        e \in 1..2}

\* own_slot: the number of masters of the second plugin, the slot its own
\* records carry in the top byte of their form id (the first plugin has none)
CacheIngredient(k, own_slot, effects) ==
    [ global_form_id |-> k,
      form_id        |-> (IF k.load_order_index = 0 THEN 0 ELSE own_slot) * TwoPow24 + k.id,
      editor_id      |-> <<"INGR", k.load_order_index, k.id>>,
      effects        |-> effects ]

InitCache ==
    /\ \E own_slot \in {0, 1} :
          \E content \in [CacheIngredientIds -> CacheEffectLists] :
              ingredients = [k \in CacheIngredientIds |->
                                CacheIngredient(k, own_slot, content[k])]
    /\ \E kind \in {"sync", "unsync"} : cache = [kind |-> kind, entries |-> <<>>]
    /\ pc = "idle"
    /\ last = [op |-> "new", lookups |-> 0]
    /\ magic_effects = PotionMagicEffects
    /\ load_order = LoadOrder_new(<<>>)
    /\ plugin_name = <<>>
    /\ masters = <<>>
    /\ parsed = {}
    /\ errors = 0
    /\ combo = <<>>
    /\ potions = <<>>
    /\ snapshot = None
    /\ effect = None

CachedSharesEffectsWith ==
    /\ last.lookups < MaxLookups
    /\ \E a, b \in DOMAIN ingredients :
          LET r == IF cache.kind = "sync"
                   THEN SharedEffectsCache_cached_shares_effects_with(
                            cache.entries, ingredients[a], ingredients[b])
                   ELSE SharedEffectsCacheUnsync_cached_shares_effects_with(
                            cache.entries, ingredients[a], ingredients[b])
          IN  /\ cache' = [cache EXCEPT !.entries = r.entries]
              /\ last' = [op |-> "cached_shares_effects_with", a |-> a, b |-> b,
                          result |-> r.result, lookups |-> last.lookups + 1]
    /\ UNCHANGED <<effect, snapshot, load_order, pc, plugin_name, masters, parsed, errors,
                   ingredients, magic_effects, combo, potions>>

\* invalidate_all() / clear()
Clear ==
    /\ cache.entries # <<>>
    /\ cache' = [cache EXCEPT !.entries = <<>>]
    /\ last' = [op |-> "clear", lookups |-> last.lookups]
    /\ UNCHANGED <<effect, snapshot, load_order, pc, plugin_name, masters, parsed, errors,
                   ingredients, magic_effects, combo, potions>>

NextCache == CachedSharesEffectsWith \/ Clear

SpecCache == InitCache /\ [][NextCache]_vars

\* C16: after any lookups and clears, cached_shares_effects_with(a, b)
\* returns what a.shares_effects_with(b) returns, for both caches.
C16_CacheEquivalence ==
    last.op = "cached_shares_effects_with" =>
        last.result = shares_effects_with(ingredients[last.a], ingredients[last.b])

\* what holds: the caches answer as shares_effects_with does as long as no
\* two ingredients of the data have the same form id
C16_EquivalenceOnDistinctFormIds ==
    (/\ last.op = "cached_shares_effects_with"
     /\ \A k, l \in DOMAIN ingredients :
           k # l => get_form_id(ingredients[k]) # get_form_id(ingredients[l])) =>
        last.result = shares_effects_with(ingredients[last.a], ingredients[last.b])

----------------------------------------------------------------------------
(* Display and FromStr applied to GlobalFormIds (SpecText) *)

\* load order indexes around the 4 digits of the padding, up to u16::MAX
TextIndexes == {0, 1, 9, 10, 99, 100, 999, 1000, 9999, 10000, 65535}

\* ids around the 6 digits of the padding and with every kind of digit
TextIds == {0, 1, 9, 10, 15, 16, 255, 11259375, 16777215, 16777216, 2147483647}

InitText ==
    /\ \E i \in TextIndexes, id \in TextIds :
          last = [op |-> "new", id |-> GlobalFormId(i, id)]
    /\ cache = <<>>
    /\ pc = "value"
    /\ load_order = LoadOrder_new(<<>>)
    /\ plugin_name = <<>>
    /\ masters = <<>>
    /\ parsed = {}
    /\ errors = 0
    /\ ingredients = <<>>
    /\ magic_effects = <<>>
    /\ combo = <<>>
    /\ potions = <<>>
    /\ snapshot = None
    /\ effect = None

\* to_string()
ToText ==
    /\ pc = "value"
    /\ last' = [op |-> "fmt", id |-> last.id, text |-> GlobalFormId_fmt(last.id)]
    /\ pc' = "text"
    /\ UNCHANGED <<effect, snapshot, cache, load_order, plugin_name, masters, parsed, errors,
                   ingredients, magic_effects, combo, potions>>

\* parse::<GlobalFormId>() of the text
FromText ==
    /\ pc = "text"
    /\ last' = [op |-> "from_str", id |-> last.id, text |-> last.text,
                result |-> GlobalFormId_from_str(last.text)]
    /\ pc' = "parsed"
    /\ UNCHANGED <<effect, snapshot, cache, load_order, plugin_name, masters, parsed, errors,
                   ingredients, magic_effects, combo, potions>>

NextText == ToText \/ FromText

SpecText == InitText /\ [][NextText]_vars

\* C17: parsing the NNNN:XXXXXX text of a GlobalFormId yields a
\* GlobalFormId equal to the original.
C17_TextRoundTrip ==
    last.op = "from_str" => last.result = Ok(last.id)

\* an id whose index needs 5 digits and whose id needs more than 6,
\* letters among them
C17_Witness ==
    /\ last.op = "from_str"
    /\ last.id.load_order_index >= 10000
    /\ last.id.id >= TwoPow24
    /\ Len(last.text) > 11
    /\ \E i \in 1..Len(last.text) : last.text[i] >= 97

\* the text is the index in at least 4 decimal digits, a colon, and the id
\* in at least 6 lowercase hexadecimal digits
C17_TextShape ==
    last.op \in {"fmt", "from_str"} =>
        LET C == {i \in 1..Len(last.text) : last.text[i] = 58}
        IN  /\ Cardinality(C) = 1
            /\ Min(C) >= 5
            /\ Len(last.text) - Min(C) >= 6
            /\ \A i \in 1..(Min(C) - 1) : last.text[i] \in 48..57
            /\ \A i \in (Min(C) + 1)..Len(last.text) :
                  last.text[i] \in (48..57) \cup (97..102)

====
